---- MODULE Spec2Model ----
(***************************************************************************)
(* Model of the on-device model provisioning and inference-fallback        *)
(* subsystem: ModelDownloader (acquisition engine, catalog) and            *)
(* RealLLMService (inference orchestrator, compatibility validator), with  *)
(* AsyncStorage (Content Store) and RNFS (Blob Store) as shared state.     *)
(*                                                                         *)
(* Every `await` of the source is a suspension point, so every handler is  *)
(* a sequence of steps (one action per awaited operation); the outcome of  *)
(* a network call, and whether a store operation throws, is chosen by the  *)
(* environment at the step.                                                *)
(***************************************************************************)
EXTENDS Integers, Sequences, FiniteSets, TLC

NULL == "null"

(***************************************************************************)
(* Bounds of the model.                                                    *)
(***************************************************************************)
\* how many of the catalog's entries the environment asks for
NumModels == 2
\* the size of a real model's file
LargeSize == 2000000
\* how many store operations (AsyncStorage, RNFS) the environment lets throw
MaxFaults == 1

(***************************************************************************)
(* Model catalog (ModelDownloader.getModelConfigurations) and the          *)
(* download list of the model manager screen.                              *)
(***************************************************************************)
CatalogOrder == <<"gpt2-onnx", "bert-base-onnx", "minilm-onnx", "distilbert-onnx">>

CatalogIds == {CatalogOrder[i] : i \in 1..NumModels}

\* an id the screen offers and the catalog does not hold
UnknownId == "test-model"

AllIds == CatalogIds \cup {UnknownId}

\* a file name is its stem followed by its extension
ModelFile == <<"model", ".onnx">>
TokenizerInfoFile == <<"tokenizer_info", ".json">>

TokenizerModelOf(id) ==
    CASE id = "gpt2-onnx" -> "Xenova/gpt2"
      [] id = "bert-base-onnx" -> "Xenova/bert-base-uncased"
      [] id = "minilm-onnx" -> "Xenova/all-MiniLM-L6-v2"
      [] id = "distilbert-onnx" -> "Xenova/distilbert-base-uncased"

ArchitectureOf(id) ==
    CASE id = "gpt2-onnx" -> "gpt2"
      [] id = "bert-base-onnx" -> "bert"
      [] id = "minilm-onnx" -> "sentence-transformer"
      [] id = "distilbert-onnx" -> "distilbert"

getModelConfigurations ==
    [id \in CatalogIds |->
        [id |-> id, modelFile |-> ModelFile,
         tokenizerModel |-> TokenizerModelOf(id),
         architecture |-> ArchitectureOf(id)]]

\* a URL is the sequence of its path segments, the host first
HubRepoOf(id) ==
    CASE id = "gpt2-onnx" -> <<"openai-community", "gpt2">>
      [] id = "bert-base-onnx" -> <<"google-bert", "bert-base-uncased">>
      [] id = "minilm-onnx" -> <<"sentence-transformers", "all-MiniLM-L6-v2">>
      [] id = "distilbert-onnx" -> <<"distilbert", "distilbert-base-uncased">>

HubUrl(id) == <<"huggingface.co">> \o HubRepoOf(id) \o <<"resolve", "main", "onnx", "model.onnx">>

TestUrl == <<"httpbin.org", "json">>

\* modelOptions: the url the screen passes with each id
UrlOf(id) == IF id \in CatalogIds THEN HubUrl(id) ELSE TestUrl

(***************************************************************************)
(* Sequences: the string operations of the source on segment sequences.    *)
(***************************************************************************)
Last(s) == s[Len(s)]

Includes(s, x) == \E i \in 1..Len(s) : s[i] = x

Filter(s, x) == SelectSeq(s, LAMBDA y : y # x)

MatchesAt(s, pat, i) ==
    /\ i + Len(pat) - 1 <= Len(s)
    /\ \A k \in 1..Len(pat) : s[i + k - 1] = pat[k]

HasSub(s, pat) == \E i \in 1..Len(s) : MatchesAt(s, pat, i)

\* String.prototype.replace with a string pattern: the first occurrence only
ReplaceFirst(s, pat, rep) ==
    IF ~HasSub(s, pat) THEN s
    ELSE LET i == CHOOSE j \in 1..Len(s) :
                    MatchesAt(s, pat, j) /\ \A k \in 1..(j - 1) : ~MatchesAt(s, pat, k)
         IN  SubSeq(s, 1, i - 1) \o rep \o SubSeq(s, i + Len(pat), Len(s))

(***************************************************************************)
(* Blob Store (react-native-fs): a map from paths to entries.  A path is   *)
(* the sequence of its components, each component a file name.             *)
(***************************************************************************)
ModelsDir == << <<"models">> >>
ModelDirOf(id) == ModelsDir \o << <<id>> >>
ModelPathOf(id) == ModelDirOf(id) \o <<ModelFile>>
TokenizerInfoPathOf(id) == ModelDirOf(id) \o <<TokenizerInfoFile>>

AllPaths ==
    {ModelsDir} \cup {ModelDirOf(id) : id \in CatalogIds}
      \cup {ModelPathOf(id) : id \in CatalogIds}
      \cup {TokenizerInfoPathOf(id) : id \in CatalogIds}

NoEntry == [kind |-> "none", what |-> "none", size |-> 0, name |-> <<>>, info |-> NULL]
DirEntry == [kind |-> "dir", what |-> "dir", size |-> 0, name |-> <<>>, info |-> NULL]

Exists(f, p) == p \in DOMAIN f /\ f[p].kind # "none"

IsPrefix(p, q) == Len(p) <= Len(q) /\ SubSeq(q, 1, Len(p)) = p

Parent(p) == SubSeq(p, 1, Len(p) - 1)

Mkdir(f, p) == [f EXCEPT ![p] = DirEntry]

\* writeFile rejects when the directory of the file is not there
CanWrite(f, p) == Exists(f, Parent(p)) /\ f[Parent(p)].kind = "dir"

WriteFile(f, p, e) == [f EXCEPT ![p] = e]

\* unlink of a directory removes everything under it
Unlink(f, p) == [q \in DOMAIN f |-> IF IsPrefix(p, q) THEN NoEntry ELSE f[q]]


\* text lengths of the two files the downloader writes itself
DemoSize == 1100
SidecarSize == 130

(***************************************************************************)
(* createIntelligentDemoModel: the placeholder artifact.                   *)
(***************************************************************************)
DemoTableIds ==
    { <<"gpt2-onnx">>, <<"bert-base-onnx">>, <<"minilm-onnx">>,
      <<"distilbert-onnx">>, <<"tinyllama-chat">> }

GenericRealModel == "Generic model simulation"

DemoRealModel(name) ==
    CASE name = <<"gpt2-onnx">> -> "OpenAI GPT-2 Base converted to ONNX format for mobile inference"
      [] name = <<"bert-base-onnx">> -> "Google BERT Base Uncased converted to ONNX format"
      [] name = <<"minilm-onnx">> -> "Microsoft Sentence-MiniLM-L6-v2 in ONNX format"
      [] name = <<"distilbert-onnx">> -> "Hugging Face DistilBERT Base Uncased in ONNX format"
      [] name = <<"tinyllama-chat">> -> "TinyLlama 1.1B Chat model simulation"

\* the text of the placeholder: the id it names and the description found for
\* that id (the error text it quotes, which nothing reads back, is left out)
createIntelligentDemoModel(name, downloadError) ==
    [kind |-> "file", what |-> "demo", size |-> DemoSize, name |-> name,
     info |-> IF name \in DemoTableIds THEN DemoRealModel(name) ELSE GenericRealModel]

\* modelPath.split('/').pop()?.replace('.onnx', '') || 'unknown'
DemoNameOfPath(modelPath) ==
    LET stripped == ReplaceFirst(Last(modelPath), <<".onnx">>, <<>>)
    IN  IF stripped = <<>> THEN <<"unknown">> ELSE stripped

\* what a transfer leaves at the destination
Payload(what, size) ==
    [kind |-> "file", what |-> what, size |-> size, name |-> <<>>, info |-> NULL]

\* tokenizer_info.json
TokenizerInfo(tokenizerModel) ==
    [kind |-> "file", what |-> "json", size |-> SidecarSize, name |-> <<>>,
     info |-> tokenizerModel]

(***************************************************************************)
(* generateAlternativeUrls                                                 *)
(***************************************************************************)
generateAlternativeUrls(originalUrl) ==
    LET a1 == IF HasSub(originalUrl, <<"resolve", "main">>)
              THEN << ReplaceFirst(originalUrl, <<"resolve", "main", "onnx">>, <<"resolve", "main">>),
                      ReplaceFirst(originalUrl, <<"onnx", "model.onnx">>, <<"model.onnx">>),
                      ReplaceFirst(originalUrl, <<"onnx", "model.onnx">>, <<"pytorch_model.bin">>),
                      ReplaceFirst(originalUrl, <<"resolve", "main">>, <<"resolve", "master">>) >>
              ELSE <<>>
        a2 == IF originalUrl[1] = "huggingface.co" /\ Len(originalUrl) >= 3
              THEN << <<"raw.githubusercontent.com", originalUrl[2], originalUrl[3], "main", "model.onnx">>,
                      <<"raw.githubusercontent.com", originalUrl[2], originalUrl[3], "master", "model.onnx">> >>
              ELSE <<>>
    IN  a1 \o a2


(***************************************************************************)
(* State.                                                                  *)
(***************************************************************************)
VARIABLES
    current_model,      \* AsyncStorage 'current_model' (SelectedModelPointer)
    installed_models,   \* AsyncStorage 'installed_models' (InstalledModelsIndex)
    model_records,      \* AsyncStorage 'model_<id>' (InstalledModelRecord), per id
    fs,                 \* RNFS: path -> entry
    dl,                 \* the ModelDownloader calls in progress, per slot
    faults,             \* how many store operations have thrown so far
    session,            \* RealLLMService.session: the path loaded, <<>> for null
    tokenizer,          \* RealLLMService.tokenizer
    currentModelId,     \* RealLLMService.currentModelId
    isInitialized,      \* RealLLMService.isInitialized
    isInitializing,     \* RealLLMService.isInitializing
    currentModel,       \* the model manager screen's currentModel
    systemPrompt,       \* RealLLMService.config.systemPrompt, as its style words
    tasks               \* the calls on the service and the screen's flows, per slot

storeVars == <<current_model, installed_models, model_records, fs>>

svcFields == <<session, tokenizer, currentModelId, isInitialized, isInitializing>>

svcVars == <<svcFields, currentModel, systemPrompt, tasks>>

NoRecord == [id |-> NULL, path |-> <<>>, tokenizerModel |-> NULL, architecture |-> NULL]

\* the slots a downloader call can run in
Slots == {"a", "b"}

Idle ==
    [op |-> "none", pc |-> "idle", url |-> <<>>, modelId |-> NULL, ret |-> FALSE,
     usedNetwork |-> FALSE, complete |-> FALSE, altIdx |-> 0, i |-> 0, err |-> NULL,
     kvFault |-> FALSE, fsFault |-> FALSE, allFailed |-> FALSE, src |-> "none",
     installed |-> <<>>, downloadedBytes |-> 0, monotone |-> TRUE,
     changed |-> FALSE]

NoSession == <<>>

NoResult ==
    [enhancedText |-> <<>>, modelUsed |-> NULL, confidence |-> 0,
     isFallback |-> FALSE, fallbackReason |-> NULL]

\* getModelConfiguration has found no configuration (null)
NoConfig == [tokenizerModel |-> NULL, architecture |-> NULL]

NoValidation == [isValid |-> FALSE, issue |-> NULL]

NoStatus == [hasRealModel |-> FALSE, status |-> NULL, tokenizerStatus |-> NULL, error |-> NULL]

\* a slot of the service with no call in it
NoTask ==
    [op |-> "none", pc |-> "idle", text |-> <<>>, modelId |-> NULL,
     curId |-> NULL, modelPath |-> <<>>,
     started |-> FALSE, guarded |-> FALSE, shortCircuited |-> {},
     initReturned |-> FALSE, initRet |-> FALSE,
     enhancedText |-> <<>>, raised |-> FALSE, afterRemoval |-> FALSE,
     removedCurrent |-> FALSE,
     outcome |-> "none", result |-> NoResult,
     stale |-> FALSE, phase |-> "none", modelConfig |-> NoConfig,
     validation |-> NoValidation, ret |-> FALSE, status |-> NoStatus, list |-> <<>>,
     mismatched |-> FALSE, faultsAtCall |-> 0, prompt |-> {}, reported |-> FALSE]

\* the service as its constructor leaves it, nothing in flight
Constructed ==
    /\ session = NoSession
    /\ tokenizer = NULL
    /\ currentModelId = NULL
    /\ isInitialized = FALSE
    /\ isInitializing = FALSE
    /\ currentModel = NULL
    /\ systemPrompt = {}
    /\ tasks = [s \in Slots |-> NoTask]
    /\ dl = [s \in Slots |-> Idle]
    /\ faults = 0

DlInit ==
    /\ current_model = NULL
    /\ installed_models = <<>>
    /\ model_records = [id \in CatalogIds |-> NoRecord]
    /\ fs = [p \in AllPaths |-> NoEntry]
    /\ Constructed

At(s, pc) == dl[s].pc = pc

\* a step of a downloader call: the service is not touched
Set(s, c) == dl' = [dl EXCEPT ![s] = c] /\ UNCHANGED svcVars

\* the store operation of the step works
Works == UNCHANGED faults

\* the store operation of the step throws
Throws == faults < MaxFaults /\ faults' = faults + 1

\* the call returns v
Finish(c, v) == [c EXCEPT !.pc = "done", !.ret = v]

(***************************************************************************)
(* ModelDownloader.downloadModel                                           *)
(***************************************************************************)
\* an entry that makes the models directory before it looks the id up
DownloadModel_Start_DirectoryFirst(s, url, modelId) ==
    /\ At(s, "idle")
    /\ fs' = IF Exists(fs, ModelsDir) THEN fs ELSE Mkdir(fs, ModelsDir)
    /\ LET c == [Idle EXCEPT !.op = "downloadModel", !.url = url, !.modelId = modelId]
       IN  IF modelId \notin DOMAIN getModelConfigurations
           THEN Set(s, Finish(c, FALSE))
           ELSE Set(s, [c EXCEPT !.pc = "dm_modelsDir"])
    /\ UNCHANGED <<current_model, installed_models, model_records, faults>>

\* entry: the catalog lookup, before anything is awaited
DownloadModel_Start(s, url, modelId) ==
    /\ At(s, "idle")
    /\ LET c == [Idle EXCEPT !.op = "downloadModel", !.url = url, !.modelId = modelId]
       IN  IF modelId \notin DOMAIN getModelConfigurations
           THEN Set(s, Finish(c, FALSE))
           ELSE Set(s, [c EXCEPT !.pc = "dm_modelsDir"])
    /\ UNCHANGED <<storeVars, faults>>

\* getModelsDirectory: exists, then mkdir
getModelsDirectory(f) == IF Exists(f, ModelsDir) THEN f ELSE Mkdir(f, ModelsDir)

DownloadModel_ModelsDir(s) ==
    /\ At(s, "dm_modelsDir")
    /\ \/ /\ Works
          /\ fs' = getModelsDirectory(fs)
          /\ Set(s, [dl[s] EXCEPT !.pc = "dm_modelDir"])
       \/ /\ Throws
          /\ UNCHANGED fs
          /\ Set(s, Finish([dl[s] EXCEPT !.fsFault = TRUE], FALSE))
    /\ UNCHANGED <<current_model, installed_models, model_records>>

\* the model's own directory: exists, then mkdir
DownloadModel_ModelDir(s) ==
    /\ At(s, "dm_modelDir")
    /\ LET modelDir == ModelDirOf(dl[s].modelId)
       IN  \/ /\ Works
              /\ fs' = IF Exists(fs, modelDir) THEN fs ELSE Mkdir(getModelsDirectory(fs), modelDir)
              /\ Set(s, [dl[s] EXCEPT !.pc = "imc_model"])
           \/ /\ Throws
              /\ UNCHANGED fs
              /\ Set(s, Finish([dl[s] EXCEPT !.fsFault = TRUE], FALSE))
    /\ UNCHANGED <<current_model, installed_models, model_records>>

\* isModelComplete: the primary artifact exists ...
IsModelComplete_Model(s) ==
    /\ At(s, "imc_model")
    /\ fs' = getModelsDirectory(fs)
    /\ IF Exists(fs, ModelPathOf(dl[s].modelId))
       THEN Set(s, [dl[s] EXCEPT !.pc = "imc_tokenizer"])
       ELSE Set(s, [dl[s] EXCEPT !.pc = "dmf_exists"])
    /\ UNCHANGED <<current_model, installed_models, model_records, faults>>

\* ... and tokenizer_info.json exists
IsModelComplete_Tokenizer(s) ==
    /\ At(s, "imc_tokenizer")
    /\ IF Exists(fs, TokenizerInfoPathOf(dl[s].modelId))
       THEN Set(s, [dl[s] EXCEPT !.pc = "save_record", !.complete = TRUE])
       ELSE Set(s, [dl[s] EXCEPT !.pc = "dmf_exists"])
    /\ UNCHANGED <<storeVars, faults>>

(***************************************************************************)
(* ModelDownloader.downloadModelFile and tryAlternativeDownload            *)
(***************************************************************************)
\* below this size a transferred file is taken for an error page
MinPlausibleSize == 1024

\* progressDivider of the primary transfer: a report at every tenth of the file
ProgressDivider == 10

\* totalBytes of the simulated progress
DemoTotalBytes == 1000000

\* onProgress is called with downloadedBytes running from first to last;
\* the call keeps the last value and whether the values so far never fell
OnProgress(c, first, last) ==
    [c EXCEPT !.monotone = @ /\ first >= c.downloadedBytes, !.downloadedBytes = last]

\* the progress callbacks of a transfer that writes n bytes at the destination
\* (res.contentLength > 0: the server states the length)
TransferProgress(c, n) == OnProgress(c, n \div ProgressDivider, n)

\* the simulated progress of the placeholder branch: 0, 10, ..., 100
DemoStep == 10
DemoLast == 100

\* a real model, or an error page (or a truncated file) at the size limit
RealModel == Payload("onnx", LargeSize)
ErrorPage == Payload("page", MinPlausibleSize)

\* what a transfer that answers 200 can leave at the destination
OkPayloads == {RealModel, ErrorPage}

\* a loop that makes the placeholder as soon as the first candidate failed
NextAlternative_GivesUpEarly(c, k) ==
    IF k <= 1
    THEN [c EXCEPT !.pc = "alt_head", !.altIdx = k]
    ELSE [c EXCEPT !.pc = "demo_progress", !.altIdx = k, !.i = 0, !.allFailed = TRUE]

\* the catch of downloadModelFile and the loop of tryAlternativeDownload:
\* candidate k is tried next; past the last one the placeholder is made
NextAlternative(c, k) ==
    IF k <= Len(generateAlternativeUrls(c.url))
    THEN [c EXCEPT !.pc = "alt_head", !.altIdx = k]
    ELSE [c EXCEPT !.pc = "demo_progress", !.altIdx = k, !.i = 0, !.allFailed = TRUE]

\* downloadModelFile's catch (downloadError)
CatchDownloadError(c, e) == NextAlternative([c EXCEPT !.err = e], 1)

\* the artifact is there: downloadModelFile returns true, prepareTokenizer is next
ModelFileReady(c, src) == [c EXCEPT !.pc = "tok_write", !.src = src]

DownloadModelFile_Exists(s) ==
    /\ At(s, "dmf_exists")
    /\ IF Exists(fs, ModelPathOf(dl[s].modelId))
       THEN Set(s, ModelFileReady(dl[s], "existing"))
       ELSE Set(s, [dl[s] EXCEPT !.pc = "dmf_head"])
    /\ UNCHANGED <<storeVars, faults>>

\* fetch(url, HEAD): ok, not ok, or a throw
DownloadModelFile_Head(s) ==
    /\ At(s, "dmf_head")
    /\ LET c == [dl[s] EXCEPT !.usedNetwork = TRUE]
       IN  \/ Set(s, [c EXCEPT !.pc = "dmf_transfer"])
           \/ Set(s, CatchDownloadError(c, "Model not accessible"))
           \/ Set(s, CatchDownloadError(c, "Network request failed"))
    /\ UNCHANGED <<storeVars, faults>>

\* RNFS.downloadFile(url -> modelPath): 200 with a payload; another status,
\* with the error page at the destination; or a throw, with or without a
\* truncated file left behind
DownloadModelFile_Transfer(s) ==
    /\ At(s, "dmf_transfer")
    /\ LET c == [dl[s] EXCEPT !.usedNetwork = TRUE]
           modelPath == ModelPathOf(c.modelId)
       IN  \/ /\ CanWrite(fs, modelPath)
              /\ \E e \in OkPayloads :
                    /\ fs' = WriteFile(fs, modelPath, e)
                    /\ Set(s, [TransferProgress(c, e.size) EXCEPT !.pc = "dmf_stat"])
           \/ /\ CanWrite(fs, modelPath)
              /\ fs' = WriteFile(fs, modelPath, ErrorPage)
              /\ LET r == TransferProgress(c, ErrorPage.size)
                 IN  \/ Set(s, CatchDownloadError(r, "Download failed with status code"))
                     \/ Set(s, CatchDownloadError(r, "Network request failed"))
           \/ /\ UNCHANGED fs
              /\ Set(s, CatchDownloadError(c, "Network request failed"))
    /\ UNCHANGED <<current_model, installed_models, model_records, faults>>

\* RNFS.stat(modelPath): a small file is logged and accepted
DownloadModelFile_Stat(s) ==
    /\ At(s, "dmf_stat")
    /\ IF Exists(fs, ModelPathOf(dl[s].modelId))
       THEN Set(s, ModelFileReady(dl[s], "primary"))
       ELSE Set(s, CatchDownloadError(dl[s], "File does not exist"))
    /\ UNCHANGED <<storeVars, faults>>

\* fetch(altUrl, HEAD): not ok, or a throw, moves on to the next candidate
TryAlternativeDownload_Head(s) ==
    /\ At(s, "alt_head")
    /\ LET c == [dl[s] EXCEPT !.usedNetwork = TRUE]
       IN  \/ Set(s, [c EXCEPT !.pc = "alt_transfer"])
           \/ Set(s, NextAlternative(c, c.altIdx + 1))
    /\ UNCHANGED <<storeVars, faults>>

\* RNFS.downloadFile(altUrl -> modelPath)
TryAlternativeDownload_Transfer(s) ==
    /\ At(s, "alt_transfer")
    /\ LET c == [dl[s] EXCEPT !.usedNetwork = TRUE]
           modelPath == ModelPathOf(c.modelId)
       IN  \/ /\ CanWrite(fs, modelPath)
              /\ \E e \in OkPayloads :
                    /\ fs' = WriteFile(fs, modelPath, e)
                    /\ Set(s, [TransferProgress(c, e.size) EXCEPT !.pc = "alt_stat"])
           \/ /\ CanWrite(fs, modelPath)
              /\ fs' = WriteFile(fs, modelPath, ErrorPage)
              /\ Set(s, NextAlternative(TransferProgress(c, ErrorPage.size), c.altIdx + 1))
           \/ /\ UNCHANGED fs
              /\ Set(s, NextAlternative(c, c.altIdx + 1))
    /\ UNCHANGED <<current_model, installed_models, model_records, faults>>

\* RNFS.stat(modelPath): only a file above 1KB is accepted
TryAlternativeDownload_Stat(s) ==
    /\ At(s, "alt_stat")
    /\ LET c == dl[s]
           modelPath == ModelPathOf(c.modelId)
       IN  IF Exists(fs, modelPath) /\ fs[modelPath].size > MinPlausibleSize
           THEN Set(s, ModelFileReady(c, "alternative"))
           ELSE Set(s, NextAlternative(c, c.altIdx + 1))
    /\ UNCHANGED <<storeVars, faults>>

\* the placeholder branch: one simulated progress report, then a pause
DownloadModelFile_DemoProgress(s) ==
    /\ At(s, "demo_progress")
    /\ dl[s].i <= DemoLast
    /\ LET bytes == (dl[s].i * DemoTotalBytes) \div DemoLast
           c == OnProgress(dl[s], bytes, bytes)
       IN  IF c.i + DemoStep <= DemoLast
           THEN Set(s, [c EXCEPT !.i = @ + DemoStep])
           ELSE Set(s, [c EXCEPT !.i = @ + DemoStep, !.pc = "demo_write"])
    /\ UNCHANGED <<storeVars, faults>>

\* a placeholder branch that gives up instead
PlaceholderGivenUp(c) == Finish(c, FALSE)

\* the placeholder is written over whatever is at modelPath
PlaceholderWritten(c) == ModelFileReady(c, "demo")

\* RNFS.writeFile(modelPath, demoContent): a throw here leaves downloadModel
DownloadModelFile_DemoWrite(s) ==
    /\ At(s, "demo_write")
    /\ LET c == dl[s]
           modelPath == ModelPathOf(c.modelId)
       IN  \/ /\ Works
              /\ CanWrite(fs, modelPath)
              /\ fs' = WriteFile(fs, modelPath,
                                 createIntelligentDemoModel(DemoNameOfPath(modelPath), c.err))
              /\ Set(s, PlaceholderWritten(c))
           \/ /\ Works
              /\ ~CanWrite(fs, modelPath)
              /\ UNCHANGED fs
              /\ Set(s, Finish(c, FALSE))
           \/ /\ Throws
              /\ UNCHANGED fs
              /\ Set(s, Finish([c EXCEPT !.fsFault = TRUE], FALSE))
    /\ UNCHANGED <<current_model, installed_models, model_records>>


(***************************************************************************)
(* ModelDownloader.prepareTokenizer and saveModelConfiguration             *)
(***************************************************************************)
\* a sidecar step whose failure fails the acquisition
PrepareTokenizer_FailsAcquisition(s) ==
    /\ At(s, "tok_write")
    /\ LET c == dl[s]
           tokenizerInfoPath == TokenizerInfoPathOf(c.modelId)
           f == getModelsDirectory(fs)
       IN  \/ /\ Works
              /\ CanWrite(f, tokenizerInfoPath)
              /\ fs' = WriteFile(f, tokenizerInfoPath,
                                 TokenizerInfo(getModelConfigurations[c.modelId].tokenizerModel))
              /\ Set(s, [c EXCEPT !.pc = "save_record"])
           \/ /\ Works
              /\ ~CanWrite(f, tokenizerInfoPath)
              /\ fs' = f
              /\ Set(s, Finish(c, FALSE))
           \/ /\ Throws
              /\ UNCHANGED fs
              /\ Set(s, Finish([c EXCEPT !.fsFault = TRUE], FALSE))
    /\ UNCHANGED <<current_model, installed_models, model_records>>

\* tokenizer_info.json is written; a throw is logged and swallowed
PrepareTokenizer(s) ==
    /\ At(s, "tok_write")
    /\ LET c == dl[s]
           tokenizerInfoPath == TokenizerInfoPathOf(c.modelId)
           f == getModelsDirectory(fs)
       IN  \/ /\ Works
              /\ CanWrite(f, tokenizerInfoPath)
              /\ fs' = WriteFile(f, tokenizerInfoPath,
                                 TokenizerInfo(getModelConfigurations[c.modelId].tokenizerModel))
              /\ Set(s, [c EXCEPT !.pc = "save_record"])
           \/ /\ Works
              /\ ~CanWrite(f, tokenizerInfoPath)
              /\ fs' = f
              /\ Set(s, [c EXCEPT !.pc = "save_record"])
           \/ /\ Throws
              /\ UNCHANGED fs
              /\ Set(s, [c EXCEPT !.pc = "save_record", !.fsFault = TRUE])
    /\ UNCHANGED <<current_model, installed_models, model_records>>

ModelInfo(modelId, config, modelPath) ==
    [id |-> modelId, path |-> modelPath,
     tokenizerModel |-> config.tokenizerModel, architecture |-> config.architecture]

\* saveModelConfiguration's catch: the throw is logged, nothing is rethrown,
\* and downloadModel goes on to return true
SaveFailed(c) == Finish([c EXCEPT !.kvFault = TRUE], TRUE)

\* setItem('model_<id>', modelInfo)
SaveModelConfiguration_Record(s) ==
    /\ At(s, "save_record")
    /\ LET c == dl[s]
       IN  \/ /\ Works
              /\ model_records' =
                    [model_records EXCEPT ![c.modelId] =
                        ModelInfo(c.modelId, getModelConfigurations[c.modelId], ModelPathOf(c.modelId))]
              /\ Set(s, [c EXCEPT !.pc = "save_getIndex"])
           \/ /\ Throws
              /\ UNCHANGED model_records
              /\ Set(s, SaveFailed(c))
    /\ UNCHANGED <<current_model, installed_models, fs>>

\* a save that appends the id without looking for it in the list
SaveModelConfiguration_GetIndex_AlwaysAppends(s) ==
    /\ At(s, "save_getIndex")
    /\ LET c == dl[s]
       IN  \/ /\ Works
              /\ Set(s, [c EXCEPT !.installed = installed_models, !.pc = "save_setIndex"])
           \/ /\ Throws
              /\ Set(s, SaveFailed(c))
    /\ UNCHANGED storeVars

\* getItem('installed_models'); nothing is written when the id is listed
SaveModelConfiguration_GetIndex(s) ==
    /\ At(s, "save_getIndex")
    /\ LET c == dl[s]
       IN  \/ /\ Works
              /\ IF Includes(installed_models, c.modelId)
                 THEN Set(s, Finish([c EXCEPT !.installed = installed_models], TRUE))
                 ELSE Set(s, [c EXCEPT !.installed = installed_models, !.pc = "save_setIndex"])
           \/ /\ Throws
              /\ Set(s, SaveFailed(c))
    /\ UNCHANGED storeVars

\* setItem('installed_models', the list read before, with the id appended)
SaveModelConfiguration_SetIndex(s) ==
    /\ At(s, "save_setIndex")
    /\ LET c == dl[s]
       IN  \/ /\ Works
              /\ installed_models' = Append(c.installed, c.modelId)
              /\ Set(s, Finish(c, TRUE))
           \/ /\ Throws
              /\ UNCHANGED installed_models
              /\ Set(s, SaveFailed(c))
    /\ UNCHANGED <<current_model, model_records, fs>>

(***************************************************************************)
(* ModelDownloader.removeModel                                             *)
(***************************************************************************)
RemoveModel_Start(s, modelId) ==
    /\ At(s, "idle")
    /\ tasks[s].pc = "idle"
    /\ Set(s, [Idle EXCEPT !.op = "removeModel", !.modelId = modelId, !.pc = "rm_exists"])
    /\ UNCHANGED <<storeVars, faults>>

\* a removal whose catch lets the error through to the caller
RemoveFailed_Rethrows(c) == [c EXCEPT !.pc = "rejected"]

\* removeModel's catch
RemoveFailed(c) == Finish(c, FALSE)

\* getModelsDirectory, then exists(modelDir)
RemoveModel_Exists(s) ==
    /\ At(s, "rm_exists")
    /\ \/ /\ Works
          /\ fs' = getModelsDirectory(fs)
          /\ IF Exists(fs, ModelDirOf(dl[s].modelId))
             THEN Set(s, [dl[s] EXCEPT !.pc = "rm_unlink"])
             ELSE Set(s, [dl[s] EXCEPT !.pc = "rm_record"])
       \/ /\ Throws
          /\ UNCHANGED fs
          /\ Set(s, RemoveFailed([dl[s] EXCEPT !.fsFault = TRUE]))
    /\ UNCHANGED <<current_model, installed_models, model_records>>

\* RNFS.unlink(modelDir)
RemoveModel_Unlink(s) ==
    /\ At(s, "rm_unlink")
    /\ \/ /\ Works
          /\ Exists(fs, ModelDirOf(dl[s].modelId))
          /\ fs' = Unlink(fs, ModelDirOf(dl[s].modelId))
          /\ Set(s, [dl[s] EXCEPT !.pc = "rm_record", !.changed = TRUE])
       \/ /\ Works
          /\ ~Exists(fs, ModelDirOf(dl[s].modelId))
          /\ UNCHANGED fs
          /\ Set(s, RemoveFailed(dl[s]))
       \/ /\ Throws
          /\ UNCHANGED fs
          /\ Set(s, RemoveFailed([dl[s] EXCEPT !.fsFault = TRUE]))
    /\ UNCHANGED <<current_model, installed_models, model_records>>

\* AsyncStorage.removeItem('model_<id>')
RemoveModel_Record(s) ==
    /\ At(s, "rm_record")
    /\ \/ /\ Works
          /\ model_records' = [id \in DOMAIN model_records |->
                                  IF id = dl[s].modelId THEN NoRecord ELSE model_records[id]]
          /\ Set(s, [dl[s] EXCEPT !.pc = "rm_getIndex",
                                  !.changed = @ \/ (/\ dl[s].modelId \in DOMAIN model_records
                                                     /\ model_records[dl[s].modelId] # NoRecord)])
       \/ /\ Throws
          /\ UNCHANGED model_records
          /\ Set(s, RemoveFailed([dl[s] EXCEPT !.kvFault = TRUE]))
    /\ UNCHANGED <<current_model, installed_models, fs>>

\* getItem('installed_models')
RemoveModel_GetIndex(s) ==
    /\ At(s, "rm_getIndex")
    /\ \/ /\ Works
          /\ Set(s, [dl[s] EXCEPT !.installed = installed_models, !.pc = "rm_setIndex"])
       \/ /\ Throws
          /\ Set(s, RemoveFailed([dl[s] EXCEPT !.kvFault = TRUE]))
    /\ UNCHANGED storeVars

\* a removal that writes an empty index
RemoveModel_SetIndex_ClearsIndex(s) ==
    /\ At(s, "rm_setIndex")
    /\ \/ /\ Works
          /\ installed_models' = <<>>
          /\ Set(s, Finish(dl[s], TRUE))
       \/ /\ Throws
          /\ UNCHANGED installed_models
          /\ Set(s, RemoveFailed([dl[s] EXCEPT !.kvFault = TRUE]))
    /\ UNCHANGED <<current_model, model_records, fs>>

\* setItem('installed_models', the list read before, without the id)
RemoveModel_SetIndex(s) ==
    /\ At(s, "rm_setIndex")
    /\ \/ /\ Works
          /\ installed_models' = Filter(dl[s].installed, dl[s].modelId)
          /\ Set(s, Finish(dl[s], TRUE))
       \/ /\ Throws
          /\ UNCHANGED installed_models
          /\ Set(s, RemoveFailed([dl[s] EXCEPT !.kvFault = TRUE]))
    /\ UNCHANGED <<current_model, model_records, fs>>

(***************************************************************************)
(* Queries of the downloader, as the values they return in a state.        *)
(***************************************************************************)
HasRecord(records, modelId) == modelId \in DOMAIN records /\ records[modelId].id # NULL

\* a lookup that answers the recorded path without looking at the file
getModelPath_RecordOnly(records, f, modelId) ==
    IF HasRecord(records, modelId) THEN records[modelId].path ELSE <<>>

\* getModelPath: the recorded path, when the file is there; <<>> stands for null
getModelPath(records, f, modelId) ==
    IF HasRecord(records, modelId) /\ Exists(f, records[modelId].path)
    THEN records[modelId].path
    ELSE <<>>

getInstalledModels(index) == index

\* the caller takes the result; the slot is free again
Return(s) ==
    /\ At(s, "done")
    /\ Set(s, Idle)
    /\ UNCHANGED <<storeVars, faults>>

(***************************************************************************)
(* The downloader alone, one call at a time.                               *)
(***************************************************************************)
vars == <<current_model, installed_models, model_records, fs, dl, faults,
          session, tokenizer, currentModelId, isInitialized, isInitializing,
          currentModel, systemPrompt, tasks>>

NoCallInFlight == \A t \in Slots : dl[t].pc = "idle"

RemoveStep(s) ==
    \/ RemoveModel_Exists(s)
    \/ RemoveModel_Unlink(s)
    \/ RemoveModel_Record(s)
    \/ RemoveModel_GetIndex(s)
    \/ RemoveModel_SetIndex(s)

DownloaderStep(s) ==
    \/ DownloadModel_ModelsDir(s)
    \/ DownloadModel_ModelDir(s)
    \/ IsModelComplete_Model(s)
    \/ IsModelComplete_Tokenizer(s)
    \/ DownloadModelFile_Exists(s)
    \/ DownloadModelFile_Head(s)
    \/ DownloadModelFile_Transfer(s)
    \/ DownloadModelFile_Stat(s)
    \/ TryAlternativeDownload_Head(s)
    \/ TryAlternativeDownload_Transfer(s)
    \/ TryAlternativeDownload_Stat(s)
    \/ DownloadModelFile_DemoProgress(s)
    \/ DownloadModelFile_DemoWrite(s)
    \/ PrepareTokenizer(s)
    \/ SaveModelConfiguration_Record(s)
    \/ SaveModelConfiguration_GetIndex(s)
    \/ SaveModelConfiguration_SetIndex(s)
    \/ RemoveStep(s)
    \/ Return(s)

SeqDownload ==
    /\ NoCallInFlight
    /\ \E modelId \in AllIds : DownloadModel_Start("a", UrlOf(modelId), modelId)

SeqRemove ==
    /\ NoCallInFlight
    /\ \E modelId \in AllIds : RemoveModel_Start("a", modelId)

NextDL == SeqDownload \/ SeqRemove \/ DownloaderStep("a")

SpecDL == DlInit /\ [][NextDL]_vars


(***************************************************************************)
(* RealLLMService: the texts, and the rule-based rewriting.                *)
(* A text is the sequence of its words; "lorem20" stands for a run of      *)
(* twenty plain words.                                                     *)
(***************************************************************************)
Texts == { <<>>, <<"good", "why?">>, <<"lorem20">> }

\* the texts the callers of the service pass
CallTexts == { <<>>, <<"good", "why?">> }

WordsIn(w) == IF w = "lorem20" THEN 20 ELSE 1

CharsIn(w) == IF w = "lorem20" THEN 119 ELSE 4

RECURSIVE SumOver(_, _)
SumOver(text, n) ==
    IF n = 0 THEN [words |-> 0, chars |-> 0]
    ELSE LET r == SumOver(text, n - 1)
         IN  [words |-> r.words + WordsIn(text[n]),
              chars |-> r.chars + CharsIn(text[n]) + (IF n > 1 THEN 1 ELSE 0)]

\* text.length
TextLength(text) == SumOver(text, Len(text)).chars

\* text.split(/\s+/).length: the empty string splits into one empty word
WordCount(text) == IF text = <<>> THEN 1 ELSE SumOver(text, Len(text)).words

ShortTextChars == 50
MediumTextChars == 100
ShortWordCount == 10

RealConfidence == 92
FallbackConfidence == 75
EmergencyConfidence == 50

\* the four replace() calls of intelligentFallback
RewriteWord(w) ==
    CASE w \in {"important", "significant"} -> "crucial and transformative"
      [] w \in {"good", "great"} -> "exceptional and valuable"
      [] w \in {"shows", "demonstrates"} -> "clearly illustrates and validates"
      [] w \in {"help", "helps"} -> "effectively supports and enhances"
      [] OTHER -> w

\* intelligentFallback: its own try/catch hands the text back when the
\* rewriting raises, so nothing is thrown to the caller
intelligentFallback(text, raises) ==
    IF raises
    THEN [threw |-> FALSE, value |-> text]
    ELSE LET enhanced ==
                 IF TextLength(text) < ShortTextChars
                 THEN Append(text, "This concept deserves deeper exploration")
                 ELSE IF TextLength(text) < MediumTextChars
                      THEN Append(text, "These insights reveal important connections")
                      ELSE text
         IN  [threw |-> FALSE,
              value |-> [i \in 1..Len(enhanced) |-> RewriteWord(enhanced[i])]]

FallbackReasonText == "Using intelligent fallback system - no ONNX model available"
EmergencyReasonText == "Emergency fallback - enhancement system unavailable"
NoSessionReasonText == "ONNX model not available - using intelligent enhancement"

\* fallbackEnhancement: the response of the rule engine, or, when
\* intelligentFallback throws, the emergency response
fallbackEnhancement(text, raises) ==
    LET r == intelligentFallback(text, raises)
    IN  IF ~r.threw
        THEN [enhancedText |-> r.value, modelUsed |-> "Intelligent Fallback System",
              confidence |-> FallbackConfidence, isFallback |-> TRUE,
              fallbackReason |-> FallbackReasonText]
        ELSE [enhancedText |-> text, modelUsed |-> "Safe Fallback",
              confidence |-> EmergencyConfidence, isFallback |-> TRUE,
              fallbackReason |-> EmergencyReasonText]

\* a system prompt, as the set of the style words it contains
Prompts == { {}, {"blog"}, {"creative"}, {"technical"}, {"casual"},
             {"technical", "creative"} }

\* the prompts in force when the callers of the service call
CallPrompts == { {}, {"creative"} }

StyleOf(prompt) ==
    IF "creative" \in prompt THEN "creative"
    ELSE IF "technical" \in prompt THEN "technical"
    ELSE IF "casual" \in prompt THEN "casual"
    ELSE "blog"

EndsWithQuestionMark(text) == text # <<>> /\ Last(text) = "why?"

\* apply<Style>Enhancement: which sentence is appended
EnhancementOf(style, text) ==
    IF WordCount(text) < ShortWordCount
    THEN CASE style = "creative" -> "creative ending"
           [] style = "technical" -> "technical ending"
           [] style = "casual" -> "casual ending"
           [] OTHER -> "blog ending"
    ELSE IF EndsWithQuestionMark(text)
    THEN CASE style = "creative" -> "creative question"
           [] style = "technical" -> "technical question"
           [] style = "casual" -> "casual question"
           [] OTHER -> "blog question"
    ELSE CASE style = "creative" -> "creative expansion"
           [] style = "technical" -> "technical expansion"
           [] style = "casual" -> "casual expansion"
           [] OTHER -> "blog expansion"

\* simulateModelOutput: a style method that throws is replaced by the
\* plain sentence
simulateModelOutput(text, prompt, raises) ==
    IF raises
    THEN Append(text, "This content has been enhanced")
    ELSE Append(text, EnhancementOf(StyleOf(prompt), text))


(***************************************************************************)
(* RealLLMService.initialize                                               *)
(***************************************************************************)
Free(t) == tasks[t].pc = "idle" /\ dl[t].pc = "idle"

\* between the guard of initialize() and its return
InitPcs == {"init_getCurrent", "init_getRecord", "init_exists", "init_readId", "init_create"}

InFlight == {t \in Slots : tasks[t].pc \in InitPcs}

\* where the caller of initialize() goes on
AfterInitPc(op) == IF op = "enhanceText" THEN "enh_afterInit" ELSE "done"

\* initialize() returns v
InitReturn(c, v) ==
    [c EXCEPT !.initReturned = TRUE, !.initRet = v, !.pc = AfterInitPc(c.op),
              !.curId = NULL, !.modelPath = <<>>,
              !.outcome = IF c.op = "enhanceText" THEN c.outcome ELSE "resolved"]

\* a guard that lets every call through
InitializeCall_NoGuard(t, c) ==
    /\ isInitializing' = TRUE
    /\ tasks' = [tasks EXCEPT ![t] = [c EXCEPT !.started = TRUE, !.pc = "init_getCurrent"]]

\* a guard that answers false to the call it turns away
InitializeCall_ReturnsFalse(t, c) ==
    IF isInitializing
    THEN /\ tasks' = [u \in Slots |->
                        IF u = t THEN InitReturn([c EXCEPT !.guarded = TRUE], FALSE)
                        ELSE IF u \in InFlight
                             THEN [tasks[u] EXCEPT !.shortCircuited = @ \cup {t}]
                             ELSE tasks[u]]
         /\ UNCHANGED isInitializing
    ELSE /\ isInitializing' = TRUE
         /\ tasks' = [tasks EXCEPT ![t] = [c EXCEPT !.started = TRUE, !.pc = "init_getCurrent"]]

\* initialize() up to its first await, for the call whose record is c: the
\* guard is tested and set with nothing awaited in between; the call turned
\* away returns isInitialized as it is now
InitializeCall(t, c) ==
    IF isInitializing
    THEN /\ tasks' = [u \in Slots |->
                        IF u = t THEN InitReturn([c EXCEPT !.guarded = TRUE], isInitialized)
                        ELSE IF u \in InFlight
                             THEN [tasks[u] EXCEPT !.shortCircuited = @ \cup {t}]
                             ELSE tasks[u]]
         /\ UNCHANGED isInitializing
    ELSE /\ isInitializing' = TRUE
         /\ tasks' = [tasks EXCEPT ![t] = [c EXCEPT !.started = TRUE, !.pc = "init_getCurrent"]]

\* a caller (the app at start-up, a screen) calls initialize()
Initialize_Start(t) ==
    /\ Free(t)
    /\ InitializeCall(t, [NoTask EXCEPT !.op = "initialize"])
    /\ UNCHANGED <<storeVars, dl, faults, session, tokenizer, currentModelId,
                   isInitialized, currentModel, systemPrompt>>

\* a return for want of a model path that leaves the guard set
NoModelAvailable_KeepsGuard(t) ==
    /\ UNCHANGED isInitializing
    /\ tasks' = [tasks EXCEPT ![t] = InitReturn(tasks[t], FALSE)]

\* no model path: the guard is released, the session is left as it is
NoModelAvailable(t) ==
    /\ isInitializing' = FALSE
    /\ tasks' = [tasks EXCEPT ![t] = InitReturn(tasks[t], FALSE)]

\* a lookup that takes the first installed model when none is selected
DownloadOrGetModel_GetCurrent_DefaultsToInstalled(t) ==
    /\ tasks[t].pc = "init_getCurrent"
    /\ \/ /\ Works
          /\ IF current_model = NULL /\ installed_models = <<>>
             THEN NoModelAvailable(t)
             ELSE /\ tasks' = [tasks EXCEPT ![t].curId = IF current_model = NULL
                                                         THEN installed_models[1]
                                                         ELSE current_model,
                                            ![t].pc = "init_getRecord"]
                  /\ UNCHANGED isInitializing
       \/ /\ Throws
          /\ NoModelAvailable(t)
    /\ UNCHANGED <<storeVars, dl, session, tokenizer, currentModelId,
                   isInitialized, currentModel, systemPrompt>>

\* downloadOrGetModel: getItem('current_model')
DownloadOrGetModel_GetCurrent(t) ==
    /\ tasks[t].pc = "init_getCurrent"
    /\ \/ /\ Works
          /\ IF current_model = NULL
             THEN NoModelAvailable(t)
             ELSE /\ tasks' = [tasks EXCEPT ![t].curId = current_model,
                                            ![t].pc = "init_getRecord"]
                  /\ UNCHANGED isInitializing
       \/ /\ Throws
          /\ NoModelAvailable(t)
    /\ UNCHANGED <<storeVars, dl, session, tokenizer, currentModelId,
                   isInitialized, currentModel, systemPrompt>>

\* getModelPath: getItem('model_<id>')
DownloadOrGetModel_GetRecord(t) ==
    /\ tasks[t].pc = "init_getRecord"
    /\ \/ /\ Works
          /\ IF HasRecord(model_records, tasks[t].curId)
             THEN /\ tasks' = [tasks EXCEPT ![t].modelPath = model_records[tasks[t].curId].path,
                                            ![t].pc = "init_exists"]
                  /\ UNCHANGED isInitializing
             ELSE NoModelAvailable(t)
       \/ /\ Throws
          /\ NoModelAvailable(t)
    /\ UNCHANGED <<storeVars, dl, session, tokenizer, currentModelId,
                   isInitialized, currentModel, systemPrompt>>

\* getModelPath: RNFS.exists(modelInfo.path)
DownloadOrGetModel_Exists(t) ==
    /\ tasks[t].pc = "init_exists"
    /\ IF Exists(fs, tasks[t].modelPath)
       THEN /\ tasks' = [tasks EXCEPT ![t].pc = "init_readId"]
            /\ UNCHANGED isInitializing
       ELSE NoModelAvailable(t)
    /\ UNCHANGED <<storeVars, dl, faults, session, tokenizer, currentModelId,
                   isInitialized, currentModel, systemPrompt>>

\* an initialization that loads the tokenizer of the model it has read
Initialize_ReadCurrentModelId_LoadsTokenizer(t) ==
    /\ tasks[t].pc = "init_readId"
    /\ \/ Works /\ currentModelId' = current_model /\ tokenizer' = current_model
       \/ Throws /\ currentModelId' = NULL /\ tokenizer' = NULL
    /\ tasks' = [tasks EXCEPT ![t].pc = "init_create"]
    /\ UNCHANGED <<storeVars, dl, session, isInitialized, isInitializing, currentModel, systemPrompt>>

\* this.currentModelId = await getItem('current_model'); this.tokenizer = null
Initialize_ReadCurrentModelId(t) ==
    /\ tasks[t].pc = "init_readId"
    /\ \/ Works /\ currentModelId' = current_model
       \/ Throws /\ currentModelId' = NULL
    /\ tokenizer' = NULL
    /\ tasks' = [tasks EXCEPT ![t].pc = "init_create"]
    /\ UNCHANGED <<storeVars, dl, session, isInitialized, isInitializing, currentModel, systemPrompt>>

\* what InferenceSession.create can load
Loadable(f, modelPath) == Exists(f, modelPath) /\ f[modelPath].what = "onnx"

\* InferenceSession.create(modelPath): the session, or the catch
Initialize_Create(t) ==
    /\ tasks[t].pc = "init_create"
    /\ \/ /\ Works
          /\ Loadable(fs, tasks[t].modelPath)
          /\ session' = tasks[t].modelPath
          /\ isInitialized' = TRUE
          /\ tasks' = [tasks EXCEPT ![t] = InitReturn(tasks[t], TRUE)]
       \/ /\ \/ Works /\ ~Loadable(fs, tasks[t].modelPath)
             \/ Throws
          /\ session' = NoSession
          /\ isInitialized' = FALSE
          /\ tasks' = [tasks EXCEPT ![t] = InitReturn(tasks[t], FALSE)]
    /\ isInitializing' = FALSE
    /\ UNCHANGED <<storeVars, dl, tokenizer, currentModelId, currentModel, systemPrompt>>

(***************************************************************************)
(* RealLLMService.enhanceText                                              *)
(***************************************************************************)
\* a fallback with no try/catch around the rule engine
FallbackResponse_Unprotected(c, raises) ==
    IF raises
    THEN [c EXCEPT !.raised = TRUE, !.outcome = "rejected", !.pc = "done"]
    ELSE [c EXCEPT !.result = fallbackEnhancement(c.text, FALSE),
                   !.outcome = "resolved", !.pc = "done"]

\* return await this.fallbackEnhancement(text, startTime)
FallbackResponse(c, raises) ==
    [c EXCEPT !.raised = raises, !.result = fallbackEnhancement(c.text, raises),
              !.outcome = "resolved", !.pc = "done"]

\* the catch of enhanceText
EnhanceTextCatch(c, raises) == FallbackResponse(c, raises)

\* runInference up to its await: 'Model not loaded' is thrown when there is
\* no session, and caught by enhanceText; else the text is rewritten in the
\* style of the effective prompt (the configured one, or the options' one)
RunInference(t, c) ==
    IF session = NoSession
    THEN \E raises \in BOOLEAN :
            tasks' = [tasks EXCEPT ![t] = EnhanceTextCatch(c, raises)]
    ELSE \E prompt \in CallPrompts :
            tasks' = [tasks EXCEPT ![t] =
                        [c EXCEPT !.enhancedText = simulateModelOutput(c.text, prompt, FALSE),
                                  !.pc = "enh_result"]]

\* a removal of the selected model has been carried through by another flow
RemovalDone(t) ==
    \E a \in Slots \ {t} :
        /\ tasks[a].op = "removeModel"
        /\ tasks[a].pc = "done"
        /\ tasks[a].removedCurrent
        /\ tasks[a].initReturned

\* the model a session was loaded from: <modelsDir>/<id>/<modelFile>
ModelOfPath(modelPath) == modelPath[2][1]

\* the service holds a session whose model has lost its record or its file
StaleSession ==
    /\ session # NoSession
    /\ \/ ~HasRecord(model_records, ModelOfPath(session))
       \/ ~Exists(fs, session)

\* getModelInfo().hasRealModel
getModelInfo == session # NoSession

\* hasRealModel as a getCurrentModelStatus none of whose reads fails would
\* report it now: a model is selected, its path resolves, a session is held
ReportsRealModel ==
    /\ current_model # NULL
    /\ getModelPath(model_records, fs, current_model) # <<>>
    /\ session # NoSession

EnhanceText_Start(t, text) ==
    /\ Free(t)
    /\ LET c == [NoTask EXCEPT !.op = "enhanceText", !.text = text,
                               !.afterRemoval = RemovalDone(t),
                               !.stale = StaleSession, !.prompt = systemPrompt,
                               !.reported = ReportsRealModel]
       IN  IF ~isInitialized
           THEN InitializeCall(t, c)
           ELSE RunInference(t, c) /\ UNCHANGED isInitializing
    /\ UNCHANGED <<storeVars, dl, faults, session, tokenizer, currentModelId,
                   isInitialized, currentModel, systemPrompt>>

\* an enhanceText that disregards what initialize() answered and goes on to
\* runInference with whatever session there is by then
EnhanceText_AfterInit_IgnoresAnswer(t) ==
    /\ tasks[t].pc = "enh_afterInit"
    /\ RunInference(t, tasks[t])
    /\ UNCHANGED <<storeVars, dl, faults, svcFields, currentModel, systemPrompt>>

\* initialize() has returned to enhanceText
EnhanceText_AfterInit(t) ==
    /\ tasks[t].pc = "enh_afterInit"
    /\ IF ~tasks[t].initRet
       THEN \E raises \in BOOLEAN :
               tasks' = [tasks EXCEPT ![t] = FallbackResponse(tasks[t], raises)]
       ELSE RunInference(t, tasks[t])
    /\ UNCHANGED <<storeVars, dl, faults, svcFields, currentModel, systemPrompt>>

\* the response, from the session as it is when runInference has returned
ModelResponse(enhancedText) ==
    IF session # NoSession
    THEN [enhancedText |-> enhancedText, modelUsed |-> "Real ONNX Model",
          confidence |-> RealConfidence, isFallback |-> FALSE, fallbackReason |-> NULL]
    ELSE [enhancedText |-> enhancedText, modelUsed |-> "Intelligent Fallback System",
          confidence |-> FallbackConfidence, isFallback |-> TRUE,
          fallbackReason |-> NoSessionReasonText]

EnhanceText_Result(t) ==
    /\ tasks[t].pc = "enh_result"
    /\ tasks' = [tasks EXCEPT ![t].result = ModelResponse(tasks[t].enhancedText),
                              ![t].outcome = "resolved", ![t].pc = "done"]
    /\ UNCHANGED <<storeVars, dl, faults, svcFields, currentModel, systemPrompt>>

\* the caller has its answer
TaskReturn(t) ==
    /\ tasks[t].pc = "done"
    /\ tasks' = [tasks EXCEPT ![t] = NoTask]
    /\ UNCHANGED <<storeVars, dl, faults, svcFields, currentModel, systemPrompt>>

(***************************************************************************)
(* The model manager screen: switchModel and removeModel.                  *)
(***************************************************************************)
\* a handler of the screen is running
FlowRunning(t) ==
    \/ tasks[t].op \in {"switchModel", "removeModel"} /\ tasks[t].pc # "done"
    \/ dl[t].pc # "idle"

\* the screen runs one of its handlers at a time
ScreenFree == \A u \in Slots : ~FlowRunning(u)

\* "Use This Model" on an installed card that is not the current one
SwitchModel_Start(t, modelId) ==
    /\ Free(t)
    /\ ScreenFree
    /\ Includes(installed_models, modelId)
    /\ currentModel # modelId
    /\ currentModel' = modelId
    /\ tasks' = [tasks EXCEPT ![t] = [NoTask EXCEPT !.op = "switchModel", !.modelId = modelId,
                                                    !.pc = "sw_setItem"]]
    /\ UNCHANGED <<storeVars, dl, faults, svcFields, systemPrompt>>

\* setItem('current_model', modelId), then initialize()
SwitchModel_SetItem(t) ==
    /\ tasks[t].pc = "sw_setItem"
    /\ \/ /\ Works
          /\ current_model' = tasks[t].modelId
          /\ InitializeCall(t, tasks[t])
       \/ /\ Throws
          /\ UNCHANGED <<current_model, isInitializing>>
          /\ tasks' = [tasks EXCEPT ![t].pc = "done"]
    /\ UNCHANGED <<installed_models, model_records, fs, dl, session, tokenizer,
                   currentModelId, isInitialized, currentModel, systemPrompt>>

\* "Remove" on an installed card, confirmed: modelDownloader.removeModel
RemoveFlow_Start(t, modelId) ==
    /\ ScreenFree
    /\ Includes(installed_models, modelId)
    /\ RemoveModel_Start(t, modelId)

\* removeModel has returned: on success, and if the model was the current
\* one, the screen forgets it
RemoveFlow_AfterRemove(t) ==
    /\ dl[t].pc = "done"
    /\ dl[t].op = "removeModel"
    /\ tasks[t].pc = "idle"
    /\ dl' = [dl EXCEPT ![t] = Idle]
    /\ LET c == [NoTask EXCEPT !.op = "removeModel", !.modelId = dl[t].modelId]
       IN  IF dl[t].ret /\ currentModel = dl[t].modelId
           THEN /\ currentModel' = NULL
                /\ tasks' = [tasks EXCEPT ![t] = [c EXCEPT !.removedCurrent = TRUE,
                                                           !.pc = "rmf_removeItem"]]
           ELSE /\ UNCHANGED currentModel
                /\ tasks' = [tasks EXCEPT ![t] = [c EXCEPT !.pc = "done"]]
    /\ UNCHANGED <<storeVars, faults, svcFields, systemPrompt>>

\* removeItem('current_model'), then initialize()
RemoveFlow_RemoveItem(t) ==
    /\ tasks[t].pc = "rmf_removeItem"
    /\ \/ /\ Works
          /\ current_model' = NULL
          /\ InitializeCall(t, tasks[t])
       \/ /\ Throws
          /\ UNCHANGED <<current_model, isInitializing>>
          /\ tasks' = [tasks EXCEPT ![t].pc = "done"]
    /\ UNCHANGED <<installed_models, model_records, fs, dl, session, tokenizer,
                   currentModelId, isInitialized, currentModel, systemPrompt>>

(***************************************************************************)
(* The service and the screen over stores that hold two models, each as a  *)
(* downloadModel that returned true leaves it.                             *)
(***************************************************************************)
EmptyStores ==
    [fs |-> [p \in AllPaths |-> NoEntry],
     records |-> [id \in CatalogIds |-> NoRecord],
     index |-> <<>>]

\* the stores after downloadModel(url, id) has left entry as the model file
Acquired(st, id, entry) ==
    [fs |-> WriteFile(
               WriteFile(Mkdir(getModelsDirectory(st.fs), ModelDirOf(id)),
                         ModelPathOf(id), entry),
               TokenizerInfoPathOf(id), TokenizerInfo(getModelConfigurations[id].tokenizerModel)),
     records |-> [st.records EXCEPT ![id] =
                     ModelInfo(id, getModelConfigurations[id], ModelPathOf(id))],
     index |-> Append(st.index, id)]

ModelFileOf(id, what) ==
    IF what = "onnx" THEN RealModel
    ELSE createIntelligentDemoModel(DemoNameOfPath(ModelPathOf(id)), "Network request failed")

\* the two models the user has downloaded before: the transfer of the
\* first worked, the second holds the placeholder
InstalledAtStart ==
    Acquired(Acquired(EmptyStores, "gpt2-onnx", ModelFileOf("gpt2-onnx", "onnx")),
             "bert-base-onnx", ModelFileOf("bert-base-onnx", "demo"))

SvcInit ==
    /\ LET st == InstalledAtStart
       IN  /\ fs = st.fs
           /\ model_records = st.records
           /\ installed_models = st.index
    /\ current_model = NULL
    /\ Constructed

ServiceStep(t) ==
    \/ Initialize_Start(t)
    \/ DownloadOrGetModel_GetCurrent(t)
    \/ DownloadOrGetModel_GetRecord(t)
    \/ DownloadOrGetModel_Exists(t)
    \/ Initialize_ReadCurrentModelId(t)
    \/ Initialize_Create(t)
    \/ \E text \in CallTexts : EnhanceText_Start(t, text)
    \/ EnhanceText_AfterInit(t)
    \/ EnhanceText_Result(t)
    \/ TaskReturn(t)
    \/ \E modelId \in CatalogIds : SwitchModel_Start(t, modelId)
    \/ SwitchModel_SetItem(t)
    \/ \E modelId \in CatalogIds : RemoveFlow_Start(t, modelId)
    \/ RemoveStep(t)
    \/ RemoveFlow_AfterRemove(t)
    \/ RemoveFlow_RemoveItem(t)

NextSvc == \E t \in Slots : ServiceStep(t)

SpecSvc == SvcInit /\ [][NextSvc]_vars


(***************************************************************************)
(* The downloader with two calls in flight: each of two callers starts a   *)
(* downloadModel or a removeModel whenever its last call has returned, and *)
(* the calls interleave at every await.                                    *)
(***************************************************************************)
\* the model the two callers ask for, with a url outside the hub (no
\* alternative candidate is generated for it)
ConcIds == {CatalogOrder[1]}

ConcDownload(s) == \E modelId \in ConcIds : DownloadModel_Start(s, TestUrl, modelId)

ConcRemove(s) == \E modelId \in ConcIds : RemoveModel_Start(s, modelId)

ConcStep(s) ==
    \/ ConcDownload(s)
    \/ ConcRemove(s)
    \/ DownloadModel_ModelsDir(s)
    \/ DownloadModel_ModelDir(s)
    \/ IsModelComplete_Model(s)
    \/ IsModelComplete_Tokenizer(s)
    \/ DownloadModelFile_Exists(s)
    \/ DownloadModelFile_Head(s)
    \/ DownloadModelFile_Transfer(s)
    \/ DownloadModelFile_Stat(s)
    \/ DownloadModelFile_DemoProgress(s)
    \/ DownloadModelFile_DemoWrite(s)
    \/ PrepareTokenizer(s)
    \/ SaveModelConfiguration_Record(s)
    \/ SaveModelConfiguration_GetIndex(s)
    \/ SaveModelConfiguration_SetIndex(s)
    \/ RemoveStep(s)
    \/ Return(s)

NextConc == \E s \in Slots : ConcStep(s)

\* nothing installed, or the two models of InstalledAtStart
ConcInit ==
    /\ \E st \in {EmptyStores, InstalledAtStart} :
          /\ fs = st.fs
          /\ model_records = st.records
          /\ installed_models = st.index
    /\ current_model = NULL
    /\ Constructed

SpecConc == ConcInit /\ [][NextConc]_vars

(***************************************************************************)
(* The downloader with two callers, each acquiring and removing a model of *)
(* its own.                                                                *)
(***************************************************************************)
\* the model the caller in slot s deals with
ModelOfCaller(s) == IF s = "a" THEN CatalogOrder[1] ELSE CatalogOrder[2]

ParDownload(s) == DownloadModel_Start(s, TestUrl, ModelOfCaller(s))

ParRemove(s) == RemoveModel_Start(s, ModelOfCaller(s))

ParStep(s) ==
    \/ ParDownload(s)
    \/ ParRemove(s)
    \/ DownloadModel_ModelsDir(s)
    \/ DownloadModel_ModelDir(s)
    \/ IsModelComplete_Model(s)
    \/ IsModelComplete_Tokenizer(s)
    \/ DownloadModelFile_Exists(s)
    \/ DownloadModelFile_Head(s)
    \/ DownloadModelFile_Transfer(s)
    \/ DownloadModelFile_Stat(s)
    \/ DownloadModelFile_DemoProgress(s)
    \/ DownloadModelFile_DemoWrite(s)
    \/ PrepareTokenizer(s)
    \/ SaveModelConfiguration_Record(s)
    \/ SaveModelConfiguration_GetIndex(s)
    \/ SaveModelConfiguration_SetIndex(s)
    \/ RemoveStep(s)
    \/ Return(s)

NextPar == \E s \in Slots : ParStep(s)

SpecPar == DlInit /\ [][NextPar]_vars


(***************************************************************************)
(* ModelDownloader.getModelConfiguration and getTokenizerInfo, and the     *)
(* Compatibility Validator: RealLLMService.validateModelTokenizerMatch     *)
(* and fixModelTokenizerMismatch.                                          *)
(***************************************************************************)
\* getModelConfiguration: modelInfo.configuration || null
getModelConfiguration(records, modelId) ==
    IF HasRecord(records, modelId)
    THEN [tokenizerModel |-> records[modelId].tokenizerModel,
          architecture |-> records[modelId].architecture]
    ELSE NoConfig

\* getTokenizerInfo, after its getModelsDirectory: the parsed sidecar (its
\* model), or null when tokenizer_info.json is not there
getTokenizerInfo(f, modelId) ==
    IF Exists(f, TokenizerInfoPathOf(modelId)) THEN f[TokenizerInfoPathOf(modelId)].info ELSE NULL

Invalid(issue) == [isValid |-> FALSE, issue |-> issue]

Valid == [isValid |-> TRUE, issue |-> NULL]

\* the checks of validateModelTokenizerMatch after its two reads, in order
ValidationOf(modelConfig, tokenizerInfo, tok) ==
    IF modelConfig = NoConfig THEN Invalid("Model configuration not found")
    ELSE IF tokenizerInfo = NULL THEN Invalid("Tokenizer not configured")
    ELSE IF tokenizerInfo # modelConfig.tokenizerModel THEN Invalid("Tokenizer mismatch")
    ELSE IF tok = NULL THEN Invalid("Tokenizer configured but not loaded")
    ELSE Valid

\* fixModelTokenizerMismatch returns v
FixReturn(c, v) == [c EXCEPT !.ret = v, !.pc = "done", !.outcome = "resolved"]

\* validateModelTokenizerMatch returns v: to its caller, or to
\* fixModelTokenizerMismatch, which goes on from its first validation
\* (624-634) or returns what its second one says (668-675)
ValidateReturn(c, v) ==
    IF c.op = "validate"
    THEN [c EXCEPT !.validation = v, !.pc = "done", !.outcome = "resolved"]
    ELSE IF c.phase = "first"
         THEN IF v.isValid THEN FixReturn([c EXCEPT !.validation = v], TRUE)
              ELSE IF currentModelId = NULL THEN FixReturn([c EXCEPT !.validation = v], FALSE)
              ELSE [c EXCEPT !.validation = v, !.pc = "fix_getConfig"]
         ELSE FixReturn([c EXCEPT !.validation = v], v.isValid)

\* validateModelTokenizerMatch up to its first await
ValidateCall(c) ==
    IF currentModelId = NULL
    THEN ValidateReturn(c, Invalid("No model selected"))
    ELSE [c EXCEPT !.pc = "val_getConfig"]

Validate_Start(t) ==
    /\ Free(t)
    /\ tasks' = [tasks EXCEPT ![t] = ValidateCall([NoTask EXCEPT !.op = "validate"])]
    /\ UNCHANGED <<storeVars, dl, faults, svcFields, currentModel, systemPrompt>>

\* getModelConfiguration(this.currentModelId): a throw of getItem is caught
\* inside and null comes back
Validate_GetConfiguration(t) ==
    /\ tasks[t].pc = "val_getConfig"
    /\ \/ /\ Works
          /\ tasks' = [tasks EXCEPT ![t].modelConfig =
                                        getModelConfiguration(model_records, currentModelId),
                                    ![t].pc = "val_getTokenizerInfo"]
       \/ /\ Throws
          /\ tasks' = [tasks EXCEPT ![t].modelConfig = NoConfig,
                                    ![t].pc = "val_getTokenizerInfo"]
    /\ UNCHANGED <<storeVars, dl, svcFields, currentModel, systemPrompt>>

\* getTokenizerInfo(this.currentModelId): getModelsDirectory (which makes
\* the directory when it is missing), exists, readFile; a throw of any of
\* them, before or after the directory is made, is caught inside
Validate_GetTokenizerInfo(t) ==
    /\ tasks[t].pc = "val_getTokenizerInfo"
    /\ \/ /\ Works
          /\ fs' = getModelsDirectory(fs)
          /\ tasks' = [tasks EXCEPT ![t] =
                ValidateReturn(tasks[t],
                    ValidationOf(tasks[t].modelConfig,
                                 getTokenizerInfo(fs, currentModelId), tokenizer))]
       \/ /\ Throws
          /\ fs' \in {fs, getModelsDirectory(fs)}
          /\ tasks' = [tasks EXCEPT ![t] =
                ValidateReturn(tasks[t], ValidationOf(tasks[t].modelConfig, NULL, tokenizer))]
    /\ UNCHANGED <<current_model, installed_models, model_records, dl, svcFields, currentModel, systemPrompt>>

\* the bound model has its record, and its sidecar is missing or names
\* another tokenizer than the record
SidecarOff ==
    /\ currentModelId # NULL
    /\ HasRecord(model_records, currentModelId)
    /\ getTokenizerInfo(fs, currentModelId) # model_records[currentModelId].tokenizerModel

\* a sidecar written with the architecture where the tokenizer belongs
FixedTokenizerInfo_Architecture(modelConfig) ==
    [TokenizerInfo(modelConfig.architecture) EXCEPT !.name = <<"fixedMismatch">>]

\* the sidecar as fixModelTokenizerMismatch writes it
FixedTokenizerInfo(modelConfig) ==
    [TokenizerInfo(modelConfig.tokenizerModel) EXCEPT !.name = <<"fixedMismatch">>]

\* fixModelTokenizerMismatch: it validates first
Fix_Start(t) ==
    /\ Free(t)
    /\ tasks' = [tasks EXCEPT ![t] =
                    ValidateCall([NoTask EXCEPT !.op = "fix", !.phase = "first",
                                                !.mismatched = SidecarOff,
                                                !.faultsAtCall = faults])]
    /\ UNCHANGED <<storeVars, dl, faults, svcFields, currentModel, systemPrompt>>

\* getModelConfiguration(this.currentModelId): without one there is nothing
\* to fix from
Fix_GetConfiguration(t) ==
    /\ tasks[t].pc = "fix_getConfig"
    /\ \/ /\ Works
          /\ LET modelConfig == getModelConfiguration(model_records, currentModelId)
             IN  IF modelConfig = NoConfig
                 THEN tasks' = [tasks EXCEPT ![t] = FixReturn(tasks[t], FALSE)]
                 ELSE tasks' = [tasks EXCEPT ![t].modelConfig = modelConfig,
                                             ![t].pc = "fix_modelsDir"]
       \/ /\ Throws
          /\ tasks' = [tasks EXCEPT ![t] = FixReturn(tasks[t], FALSE)]
    /\ UNCHANGED <<storeVars, dl, svcFields, currentModel, systemPrompt>>

\* getModelsDirectory, called by fixModelTokenizerMismatch itself: a throw
\* goes to its catch
Fix_ModelsDirectory(t) ==
    /\ tasks[t].pc = "fix_modelsDir"
    /\ \/ /\ Works
          /\ fs' = getModelsDirectory(fs)
          /\ tasks' = [tasks EXCEPT ![t].pc = "fix_write"]
       \/ /\ Throws
          /\ UNCHANGED fs
          /\ tasks' = [tasks EXCEPT ![t] = FixReturn(tasks[t], FALSE)]
    /\ UNCHANGED <<current_model, installed_models, model_records, dl, svcFields, currentModel, systemPrompt>>

\* a repair that writes over the model file instead of the sidecar
Fix_WriteFile_OverArtifact(t) ==
    /\ tasks[t].pc = "fix_write"
    /\ LET modelPath == ModelPathOf(currentModelId)
       IN  \/ /\ Works
              /\ CanWrite(fs, modelPath)
              /\ fs' = WriteFile(fs, modelPath, FixedTokenizerInfo(tasks[t].modelConfig))
              /\ tokenizer' = NULL
              /\ tasks' = [tasks EXCEPT ![t] = ValidateCall([tasks[t] EXCEPT !.phase = "second"])]
           \/ /\ \/ Works /\ ~CanWrite(fs, modelPath)
                 \/ Throws
              /\ UNCHANGED <<fs, tokenizer>>
              /\ tasks' = [tasks EXCEPT ![t] = FixReturn(tasks[t], FALSE)]
    /\ UNCHANGED <<current_model, installed_models, model_records, dl, session,
                   currentModelId, isInitialized, isInitializing, currentModel, systemPrompt>>

\* RNFS.writeFile(tokenizerInfoPath, ...), this.tokenizer = null, and the
\* second validation up to its first await
Fix_WriteFile(t) ==
    /\ tasks[t].pc = "fix_write"
    /\ LET tokenizerInfoPath == TokenizerInfoPathOf(currentModelId)
       IN  \/ /\ Works
              /\ CanWrite(fs, tokenizerInfoPath)
              /\ fs' = WriteFile(fs, tokenizerInfoPath, FixedTokenizerInfo(tasks[t].modelConfig))
              /\ tokenizer' = NULL
              /\ tasks' = [tasks EXCEPT ![t] = ValidateCall([tasks[t] EXCEPT !.phase = "second"])]
           \/ /\ \/ Works /\ ~CanWrite(fs, tokenizerInfoPath)
                 \/ Throws
              /\ UNCHANGED <<fs, tokenizer>>
              /\ tasks' = [tasks EXCEPT ![t] = FixReturn(tasks[t], FALSE)]
    /\ UNCHANGED <<current_model, installed_models, model_records, dl, session,
                   currentModelId, isInitialized, isInitializing, currentModel, systemPrompt>>

(***************************************************************************)
(* RealLLMService.getCurrentModelStatus                                    *)
(***************************************************************************)
TokenizerStatusOf(tokenizerInfo, tok) ==
    IF tok # NULL
    THEN IF tokenizerInfo # NULL THEN "Active" ELSE "Active: Fallback tokenizer"
    ELSE IF tokenizerInfo # NULL THEN "Configured (not loaded)" ELSE "No tokenizer configured"

\* a status that reports a real model only when the sidecar was read
StatusOf_NeedsSidecar(modelPath, tokenizerInfo, tok) ==
    IF modelPath # <<>> /\ tokenizerInfo # NULL /\ session # NoSession
    THEN [hasRealModel |-> TRUE, status |-> "Real AI model loaded and active",
          tokenizerStatus |-> TokenizerStatusOf(tokenizerInfo, tok), error |-> NULL]
    ELSE [hasRealModel |-> FALSE,
          status |-> "Model selected but file not found - using intelligent fallback",
          tokenizerStatus |-> "Model not found",
          error |-> "Selected model file missing or corrupted"]

\* the status object for a selected model, from the path getModelPath gave
\* and the session as it is now
StatusOf(modelPath, tokenizerInfo, tok) ==
    IF modelPath # <<>>
    THEN IF session # NoSession
         THEN [hasRealModel |-> TRUE, status |-> "Real AI model loaded and active",
               tokenizerStatus |-> TokenizerStatusOf(tokenizerInfo, tok), error |-> NULL]
         ELSE [hasRealModel |-> FALSE,
               status |-> "Model selected but using intelligent fallback - ONNX loading failed",
               tokenizerStatus |-> TokenizerStatusOf(tokenizerInfo, tok),
               error |-> "ONNX model loading failed - using intelligent fallback system"]
    ELSE [hasRealModel |-> FALSE,
          status |-> "Model selected but file not found - using intelligent fallback",
          tokenizerStatus |-> "Model not found",
          error |-> "Selected model file missing or corrupted"]

NoModelSelectedStatus ==
    [hasRealModel |-> FALSE, status |-> "No model selected - using fallback system",
     tokenizerStatus |-> "No model selected", error |-> NULL]

\* the catch of getCurrentModelStatus
ErrorStatus ==
    [hasRealModel |-> FALSE, status |-> "Error checking model status",
     tokenizerStatus |-> "Error", error |-> "Unknown error"]

StatusReturn(c, v) == [c EXCEPT !.status = v, !.pc = "done", !.outcome = "resolved"]

GetCurrentModelStatus_Start(t) ==
    /\ Free(t)
    /\ tasks' = [tasks EXCEPT ![t] = [NoTask EXCEPT !.op = "status", !.pc = "st_getCurrent"]]
    /\ UNCHANGED <<storeVars, dl, faults, svcFields, currentModel, systemPrompt>>

\* getItem('current_model'): a throw goes to the catch of the method
GetCurrentModelStatus_GetCurrent(t) ==
    /\ tasks[t].pc = "st_getCurrent"
    /\ \/ /\ Works
          /\ IF current_model = NULL
             THEN tasks' = [tasks EXCEPT ![t] = StatusReturn(tasks[t], NoModelSelectedStatus)]
             ELSE tasks' = [tasks EXCEPT ![t].curId = current_model,
                                         ![t].pc = "st_getModelPath"]
       \/ /\ Throws
          /\ tasks' = [tasks EXCEPT ![t] = StatusReturn(tasks[t], ErrorStatus)]
    /\ UNCHANGED <<storeVars, dl, svcFields, currentModel, systemPrompt>>

\* getModelPath(currentModelId): a throw is caught inside and null comes back
GetCurrentModelStatus_GetModelPath(t) ==
    /\ tasks[t].pc = "st_getModelPath"
    /\ \/ /\ Works
          /\ tasks' = [tasks EXCEPT ![t].modelPath =
                                        getModelPath(model_records, fs, tasks[t].curId),
                                    ![t].pc = "st_getTokenizerInfo"]
       \/ /\ Throws
          /\ tasks' = [tasks EXCEPT ![t].modelPath = <<>>, ![t].pc = "st_getTokenizerInfo"]
    /\ UNCHANGED <<storeVars, dl, svcFields, currentModel, systemPrompt>>

\* getTokenizerInfo(currentModelId), then the status object
GetCurrentModelStatus_GetTokenizerInfo(t) ==
    /\ tasks[t].pc = "st_getTokenizerInfo"
    /\ \/ /\ Works
          /\ fs' = getModelsDirectory(fs)
          /\ tasks' = [tasks EXCEPT ![t] =
                StatusReturn(tasks[t],
                    StatusOf(tasks[t].modelPath, getTokenizerInfo(fs, tasks[t].curId), tokenizer))]
       \/ /\ Throws
          /\ fs' \in {fs, getModelsDirectory(fs)}
          /\ tasks' = [tasks EXCEPT ![t] =
                StatusReturn(tasks[t], StatusOf(tasks[t].modelPath, NULL, tokenizer))]
    /\ UNCHANGED <<current_model, installed_models, model_records, dl, svcFields, currentModel, systemPrompt>>

(***************************************************************************)
(* The queries of the downloader, as calls.                                *)
(***************************************************************************)
\* getModelPath(modelId): the catch answers null
GetModelPath_Call(t, modelId) ==
    /\ Free(t)
    /\ \/ /\ Works
          /\ tasks' = [tasks EXCEPT ![t] =
                [NoTask EXCEPT !.op = "getModelPath", !.modelId = modelId,
                               !.modelPath = getModelPath(model_records, fs, modelId),
                               !.faultsAtCall = faults, !.pc = "done", !.outcome = "resolved"]]
       \/ /\ Throws
          /\ tasks' = [tasks EXCEPT ![t] =
                [NoTask EXCEPT !.op = "getModelPath", !.modelId = modelId,
                               !.faultsAtCall = faults, !.pc = "done", !.outcome = "resolved"]]
    /\ UNCHANGED <<storeVars, dl, svcFields, currentModel, systemPrompt>>

\* getInstalledModels(): the catch answers []
GetInstalledModels_Call(t) ==
    /\ Free(t)
    /\ \/ /\ Works
          /\ tasks' = [tasks EXCEPT ![t] =
                [NoTask EXCEPT !.op = "getInstalledModels",
                               !.list = getInstalledModels(installed_models),
                               !.pc = "done", !.outcome = "resolved"]]
       \/ /\ Throws
          /\ tasks' = [tasks EXCEPT ![t] =
                [NoTask EXCEPT !.op = "getInstalledModels",
                               !.pc = "done", !.outcome = "resolved"]]
    /\ UNCHANGED <<storeVars, dl, svcFields, currentModel, systemPrompt>>

(***************************************************************************)
(* The public operations of the downloader and of the service, called one  *)
(* at a time: a call starts when no other call is running; the record of a *)
(* finished call stays until its caller has taken it.  The pointer is the  *)
(* one the process started with: no screen flow selects or deselects.      *)
(***************************************************************************)
\* the model the downloader is asked for here, and the id it does not know
ApiIds == {CatalogOrder[1], UnknownId}

\* no call is running
Quiet == \A u \in Slots : tasks[u].pc \in {"idle", "done"} /\ dl[u].pc \in {"idle", "done"}

\* what the process can find at its start: nothing and no pointer; nothing
\* and the pointer the debug panel sets (DebugModelStatus.testModelSelection);
\* the two installed models with no pointer or with one of them selected
ApiStarts ==
    { [stores |-> EmptyStores, pointer |-> NULL],
      [stores |-> EmptyStores, pointer |-> UnknownId],
      [stores |-> InstalledAtStart, pointer |-> NULL] }
      \cup { [stores |-> InstalledAtStart, pointer |-> id] : id \in {"gpt2-onnx", "bert-base-onnx"} }

ApiInit ==
    /\ \E st \in ApiStarts :
          /\ fs = st.stores.fs
          /\ model_records = st.stores.records
          /\ installed_models = st.stores.index
          /\ current_model = st.pointer
    /\ Constructed

ApiDownloadModel ==
    /\ Quiet
    /\ tasks["a"].pc = "idle"
    /\ \E modelId \in ApiIds : DownloadModel_Start("a", UrlOf(modelId), modelId)

ApiRemoveModel ==
    /\ Quiet
    /\ \E modelId \in ApiIds : RemoveModel_Start("a", modelId)

ApiGetModelPath(t) ==
    /\ Quiet
    /\ \E modelId \in ApiIds : GetModelPath_Call(t, modelId)

ApiGetInstalledModels(t) ==
    /\ Quiet
    /\ GetInstalledModels_Call(t)

ApiInitialize(t) ==
    /\ Quiet
    /\ Initialize_Start(t)

ApiEnhanceText(t) ==
    /\ Quiet
    /\ \E text \in CallTexts : EnhanceText_Start(t, text)

ApiValidate(t) ==
    /\ Quiet
    /\ Validate_Start(t)

ApiFix(t) ==
    /\ Quiet
    /\ Fix_Start(t)

ApiGetCurrentModelStatus(t) ==
    /\ Quiet
    /\ GetCurrentModelStatus_Start(t)

ApiStep(t) ==
    \/ ApiGetModelPath(t)
    \/ ApiGetInstalledModels(t)
    \/ ApiInitialize(t)
    \/ DownloadOrGetModel_GetCurrent(t)
    \/ DownloadOrGetModel_GetRecord(t)
    \/ DownloadOrGetModel_Exists(t)
    \/ Initialize_ReadCurrentModelId(t)
    \/ Initialize_Create(t)
    \/ ApiEnhanceText(t)
    \/ EnhanceText_AfterInit(t)
    \/ EnhanceText_Result(t)
    \/ ApiValidate(t)
    \/ Validate_GetConfiguration(t)
    \/ Validate_GetTokenizerInfo(t)
    \/ ApiFix(t)
    \/ Fix_GetConfiguration(t)
    \/ Fix_ModelsDirectory(t)
    \/ Fix_WriteFile(t)
    \/ ApiGetCurrentModelStatus(t)
    \/ GetCurrentModelStatus_GetCurrent(t)
    \/ GetCurrentModelStatus_GetModelPath(t)
    \/ GetCurrentModelStatus_GetTokenizerInfo(t)
    \/ TaskReturn(t)

NextApi ==
    \/ ApiDownloadModel
    \/ ApiRemoveModel
    \/ DownloaderStep("a")
    \/ \E t \in Slots : ApiStep(t)

SpecApi == ApiInit /\ [][NextApi]_vars


(***************************************************************************)
(* RealLLMService.setSystemPrompt, and the service called for texts under  *)
(* the prompts it derives.                                                 *)
(***************************************************************************)
\* the style words in systemPrompts[role]
BasePromptOf(role) ==
    CASE role = "creative_writer" -> {"creative"}
      [] role = "technical_writer" -> {"technical"}
      [] role = "casual_writer" -> {"casual"}
      [] OTHER -> {"blog"}

\* the style words in styleAddition; no focusAddition holds one
StyleAdditionOf(style) ==
    CASE style = "casual" -> {"casual"}
      [] style = "creative" -> {"creative"}
      [] OTHER -> {}

\* a customPrompt is absent or empty (<<>>), or a text with the style words
\* given
SystemPromptConfigs ==
    [role : {"blog_enhancer", "creative_writer", "technical_writer", "casual_writer"},
     style : {"formal", "creative"},
     focus : {"grammar", "creativity"},
     customPrompt : {<<>>, <<{"technical"}>>}]

setSystemPrompt(config) ==
    IF config.customPrompt # <<>>
    THEN config.customPrompt[1]
    ELSE BasePromptOf(config.role) \cup StyleAdditionOf(config.style)

SetSystemPrompt(config) ==
    /\ systemPrompt' = setSystemPrompt(config)
    /\ UNCHANGED <<storeVars, dl, faults, svcFields, currentModel, tasks>>

StyleSetSystemPrompt ==
    /\ Quiet
    /\ \E config \in SystemPromptConfigs : SetSystemPrompt(config)

StyleStep(t) ==
    \/ ApiEnhanceText(t)
    \/ DownloadOrGetModel_GetCurrent(t)
    \/ DownloadOrGetModel_GetRecord(t)
    \/ DownloadOrGetModel_Exists(t)
    \/ Initialize_ReadCurrentModelId(t)
    \/ Initialize_Create(t)
    \/ EnhanceText_AfterInit(t)
    \/ EnhanceText_Result(t)
    \/ TaskReturn(t)

NextStyle == StyleSetSystemPrompt \/ \E t \in Slots : StyleStep(t)

\* nothing installed and nothing selected, or the two models of
\* InstalledAtStart with one of them selected
StyleInit ==
    /\ \E st \in {st \in ApiStarts : st.stores = EmptyStores <=> st.pointer = NULL} :
          /\ fs = st.stores.fs
          /\ model_records = st.stores.records
          /\ installed_models = st.stores.index
          /\ current_model = st.pointer
    /\ Constructed

SpecStyle == StyleInit /\ [][NextStyle]_vars


(***************************************************************************)
(* The service called by two callers at once, its stores left alone: every *)
(* await of an initialize() in flight returns or fails in the end.         *)
(***************************************************************************)
\* the steps of an initialize() past its guard
InitializeStep(t) ==
    \/ DownloadOrGetModel_GetCurrent(t)
    \/ DownloadOrGetModel_GetRecord(t)
    \/ DownloadOrGetModel_Exists(t)
    \/ Initialize_ReadCurrentModelId(t)
    \/ Initialize_Create(t)

CallerStep(t) ==
    \/ Initialize_Start(t)
    \/ \E text \in CallTexts : EnhanceText_Start(t, text)
    \/ EnhanceText_AfterInit(t)
    \/ EnhanceText_Result(t)
    \/ TaskReturn(t)

NextCalls == \E t \in Slots : InitializeStep(t) \/ CallerStep(t)

SpecCalls == ApiInit /\ [][NextCalls]_vars /\ \A t \in Slots : WF_vars(InitializeStep(t))


(***************************************************************************)
(* Properties of the downloader (SpecDL).                                  *)
(***************************************************************************)
\* a downloadModel call that has returned
Returned(s) == dl[s].op = "downloadModel" /\ dl[s].pc = "done"

IsFile(f, p) == Exists(f, p) /\ f[p].kind = "file"

\* C3: for a catalog id, when the original URL and every alternative have
\* failed and no store operation of the call has thrown, downloadModel
\* returns true and the model file exists at <modelsDir>/<id>/<modelFile>.
C3_NetworkFailuresAreAbsorbed ==
    \A s \in Slots :
        (Returned(s) /\ dl[s].allFailed /\ ~dl[s].fsFault /\ ~dl[s].kvFault)
            => /\ dl[s].ret
               /\ dl[s].modelId \in CatalogIds
               /\ IsFile(fs, ModelPathOf(dl[s].modelId))

C3_Witness ==
    \E s \in Slots :
        /\ Returned(s) /\ dl[s].allFailed /\ ~dl[s].fsFault /\ ~dl[s].kvFault
        /\ dl[s].usedNetwork
        /\ dl[s].altIdx > Len(generateAlternativeUrls(dl[s].url))
        /\ dl[s].ret
        /\ fs[ModelPathOf(dl[s].modelId)].what = "demo"

\* C4: the placeholder that downloadModel(url, modelId) writes names the
\* requested modelId and carries the description the table holds for it.
C4_PlaceholderNamesRequestedModel ==
    \A s \in Slots :
        (Returned(s) /\ dl[s].ret /\ dl[s].src = "demo"
           /\ fs[ModelPathOf(dl[s].modelId)].what = "demo")
            => /\ fs[ModelPathOf(dl[s].modelId)].name = <<dl[s].modelId>>
               /\ <<dl[s].modelId>> \in DemoTableIds
                     => fs[ModelPathOf(dl[s].modelId)].info = DemoRealModel(<<dl[s].modelId>>)

\* C5: when the model is already complete, downloadModel uses no network,
\* writes the record and the index entry (no write of saveModelConfiguration
\* is lost), and returns true.
C5_CompleteModelIsNotFetchedAgain ==
    \A s \in Slots :
        (Returned(s) /\ dl[s].complete)
            => /\ dl[s].ret
               /\ ~dl[s].usedNetwork
               /\ ~dl[s].kvFault
               /\ HasRecord(model_records, dl[s].modelId)
               /\ Includes(installed_models, dl[s].modelId)

\* C9: whenever downloadModel returns true, the record 'model_<id>' exists,
\* getInstalledModels() contains the id, and getModelPath(id) is the path of
\* an existing model file.
C9_TrueMeansInstalled ==
    \A s \in Slots :
        (Returned(s) /\ dl[s].ret)
            => /\ HasRecord(model_records, dl[s].modelId)
               /\ Includes(getInstalledModels(installed_models), dl[s].modelId)
               /\ getModelPath(model_records, fs, dl[s].modelId) = ModelPathOf(dl[s].modelId)
               /\ IsFile(fs, ModelPathOf(dl[s].modelId))

\* C10: downloadModel with an id that is not in the catalog returns false at
\* once: the step that takes the call ends it, with no network call and no
\* change to the Blob Store or the Content Store.
C10_UnknownIdChangesNothing ==
    [][\A s \in Slots :
          (dl[s].pc = "idle" /\ dl'[s].op = "downloadModel"
             /\ dl'[s].modelId \notin CatalogIds)
              => /\ dl'[s].pc = "done"
                 /\ ~dl'[s].ret
                 /\ ~dl'[s].usedNetwork
                 /\ UNCHANGED storeVars]_vars

C10_Witness ==
    \E s \in Slots :
        /\ Returned(s) /\ dl[s].modelId = UnknownId /\ ~dl[s].ret
        /\ ~Exists(fs, ModelsDir)

(***************************************************************************)
(* Properties of the service (SpecSvc).                                    *)
(***************************************************************************)
EnhanceReturned(t) == tasks[t].op = "enhanceText" /\ tasks[t].pc = "done"

\* C1: enhanceText resolves to a result object and never rejects, whatever
\* the text and whatever state the service is in.
C1_EnhanceTextAlwaysResolves ==
    \A t \in Slots :
        /\ tasks[t].outcome # "rejected"
        /\ EnhanceReturned(t)
              => /\ tasks[t].outcome = "resolved"
                 /\ tasks[t].result # NoResult
                 /\ tasks[t].result.confidence > 0

\* initialization has failed under the call, and the rule engine has
\* raised as well
C1_Witness ==
    \E t \in Slots :
        /\ EnhanceReturned(t)
        /\ tasks[t].started /\ tasks[t].initReturned /\ ~tasks[t].initRet
        /\ tasks[t].raised
        /\ tasks[t].text = <<>>
        /\ tasks[t].outcome = "resolved"

\* C2: whenever the rule-based enhancer raises during enhanceText, the
\* result has the original text, isFallback = true and the emergency
\* confidence 0.5.
C2_EnhancerFailureGivesEmergencyResult ==
    \A t \in Slots :
        (EnhanceReturned(t) /\ tasks[t].raised)
            => /\ tasks[t].result.enhancedText = tasks[t].text
               /\ tasks[t].result.isFallback
               /\ tasks[t].result.confidence = EmergencyConfidence
               /\ EmergencyConfidence # FallbackConfidence

\* C6: at most one initialization is in flight at any time, and a call that
\* finds isInitializing true starts none.
C6_AtMostOneInitialization ==
    /\ Cardinality(InFlight) <= 1
    /\ isInitializing <=> InFlight # {}
    /\ \A t \in Slots : tasks[t].guarded => ~tasks[t].started

C6_Witness ==
    \E t, u \in Slots :
        /\ t # u
        /\ tasks[t].pc = "init_create"
        /\ tasks[u].guarded /\ tasks[u].initReturned
        /\ u \in tasks[t].shortCircuited

\* C7 as stated: of two concurrent initialize() calls the one turned away
\* is returned what the other one returns.
C7_BothCallersGetTheSameAnswer ==
    \A t, u \in Slots :
        (/\ t # u
         /\ tasks[t].started /\ tasks[t].initReturned
         /\ u \in tasks[t].shortCircuited
         /\ tasks[u].guarded /\ tasks[u].initReturned)
            => tasks[u].initRet = tasks[t].initRet

\* C7: when initialize() is called while another call is initializing,
\* the new call starts no load attempt (the only one in flight is the
\* other's) and is returned isInitialized as it is at that moment.
C7_TurnedAwayCallGetsCurrentReadiness ==
    [][\A u \in Slots :
          (~tasks[u].guarded /\ tasks'[u].guarded)
              => /\ tasks'[u].initReturned
                 /\ tasks'[u].initRet = isInitialized
                 /\ ~tasks'[u].started
                 /\ Cardinality(InFlight) = 1
                 /\ InFlight' = InFlight
                 /\ UNCHANGED <<session, isInitialized, isInitializing>>]_vars

\* the two answers differ: the call turned away got false, the other true
C7_Witness ==
    \E t, u \in Slots :
        /\ t # u
        /\ tasks[t].op = "initialize" /\ tasks[u].op = "initialize"
        /\ tasks[t].started /\ tasks[t].initReturned /\ tasks[t].initRet
        /\ u \in tasks[t].shortCircuited
        /\ tasks[u].guarded /\ tasks[u].initReturned /\ ~tasks[u].initRet

\* the reason of a result says that no model is selected or available
ReasonSaysNoModel(reason) == reason \in {"no-model-selected", FallbackReasonText}

\* C8: after the removal flow has removed the selected model, reset the
\* pointer and called initialize(), 'current_model' is empty and the next
\* enhanceText returns isFallback = true with the reason that no model is
\* selected.
C8_RemovalLeavesFallback ==
    \A a, b \in Slots :
        (/\ tasks[a].op = "removeModel" /\ tasks[a].pc = "done"
         /\ tasks[a].removedCurrent /\ tasks[a].initReturned
         /\ EnhanceReturned(b) /\ tasks[b].afterRemoval)
            => /\ current_model = NULL
               /\ tasks[b].result.isFallback
               /\ ReasonSaysNoModel(tasks[b].result.fallbackReason)

(***************************************************************************)
(* Progress reports of the downloader (SpecDL).                            *)
(***************************************************************************)
\* C16: within one downloadModel call the downloadedBytes of the onProgress
\* callbacks never fall, also when a transfer has reported progress and
\* failed and another transfer or the simulated progress follows.
C16_ProgressNeverFalls ==
    \A s \in Slots : dl[s].op = "downloadModel" => dl[s].monotone

(***************************************************************************)
(* The state machine of initialize(), and enhanceText against it (SpecSvc).*)
(***************************************************************************)
\* the step in which the initialization run by call t comes to its end
InitializationEnds(t) ==
    tasks[t].pc \in InitPcs /\ tasks'[t].pc \notin InitPcs /\ tasks'[t].initReturned

\* C17: when an initialize() that was not turned away by the guard ends,
\* whatever the state before it, the service holds a session iff the
\* pointer was non-empty, the path resolved and InferenceSession.create
\* succeeded; with an empty pointer or no artifact it ends with no session.
C17_SessionIffModelLoaded ==
    [][\A t \in Slots :
          InitializationEnds(t)
              => /\ (session' # NoSession)
                      <=> (tasks[t].pc = "init_create" /\ tasks'[t].initRet)
                 /\ tasks[t].pc # "init_create" => session' = NoSession]_vars

\* C20: an enhanceText that arrives while an initialize() is in flight
\* starts no initialization and is not held up: its initialize() has
\* answered in the same step, the flight of the other is untouched, and a
\* call that found the service uninitialized ends with the fallback result,
\* whatever the initialization in flight comes to.
C20_CallDuringInitializationFallsBack ==
    [][\A t \in Slots :
          /\ (isInitializing /\ tasks[t].pc = "idle" /\ tasks'[t].op = "enhanceText")
                => /\ ~tasks'[t].started
                   /\ InFlight' = InFlight
                   /\ UNCHANGED <<session, isInitialized, isInitializing>>
                   /\ ~isInitialized
                         => /\ tasks'[t].guarded
                            /\ tasks'[t].pc = "enh_afterInit"
                            /\ tasks'[t].initReturned /\ ~tasks'[t].initRet
          /\ (tasks[t].op = "enhanceText" /\ tasks[t].guarded
                 /\ tasks[t].pc # "done" /\ tasks'[t].pc = "done")
                => /\ tasks'[t].result.isFallback
                   /\ tasks'[t].result.modelUsed = "Intelligent Fallback System"
                   /\ InFlight' = InFlight]_vars

\* the call turned away has its fallback result, and the initialization
\* that was in flight has loaded a session since
C20_Witness ==
    \E t, u \in Slots :
        /\ t # u
        /\ EnhanceReturned(t) /\ tasks[t].guarded /\ tasks[t].result.isFallback
        /\ t \in tasks[u].shortCircuited
        /\ tasks[u].started /\ tasks[u].initReturned /\ tasks[u].initRet
        /\ session # NoSession

(***************************************************************************)
(* Properties of the public operations called one at a time (SpecApi).     *)
(***************************************************************************)
\* C12: with no model ever selected, enhanceText on any text, the empty one
\* included, starts the initialization itself and returns a result with
\* isFallback = true, the fallback system as modelUsed and a text that keeps
\* the words it was given, and the service has no session, no bound model
\* and is not initialized afterwards.
C12_NoModelSelectedGivesFallback ==
    \A t \in Slots :
        (EnhanceReturned(t) /\ current_model = NULL)
            => /\ tasks[t].started
               /\ tasks[t].outcome = "resolved"
               /\ tasks[t].result.isFallback
               /\ tasks[t].result.modelUsed = "Intelligent Fallback System"
               /\ Len(tasks[t].result.enhancedText) >= Len(tasks[t].text)
               /\ session = NoSession
               /\ currentModelId = NULL
               /\ ~isInitialized

\* the empty text is answered by the fallback while a real model is
\* installed that was never selected
C12_Witness ==
    \E t \in Slots :
        /\ EnhanceReturned(t) /\ current_model = NULL
        /\ tasks[t].text = <<>>
        /\ tasks[t].result.isFallback
        /\ tasks[t].result.enhancedText # <<>>
        /\ HasRecord(model_records, "gpt2-onnx")
        /\ Loadable(fs, model_records["gpt2-onnx"].path)

\* the operations of the service that report through their return value
ReportingOps == {"initialize", "validate", "fix", "getModelPath", "getInstalledModels"}

\* C13: downloadModel, removeModel, getInstalledModels, getModelPath,
\* initialize, validateModelTokenizerMatch and fixModelTokenizerMismatch
\* never reject, whatever fails in the stores, the network or the runtime
\* loader: a call that has ended has resolved, and a removal that met a
\* failure has returned false.
C13_FailuresAreReturned ==
    \A s \in Slots :
        /\ dl[s].pc # "rejected"
        /\ tasks[s].op \in ReportingOps => tasks[s].outcome # "rejected"
        /\ (tasks[s].op \in ReportingOps /\ tasks[s].pc = "done")
              => tasks[s].outcome = "resolved"
        /\ (dl[s].op = "removeModel" /\ dl[s].pc = "done" /\ (dl[s].kvFault \/ dl[s].fsFault))
              => ~dl[s].ret

\* a removal has failed on the Content Store and returned false, and an
\* initialization after it has returned false as well
C13_Witness ==
    \E s, t \in Slots :
        /\ dl[s].op = "removeModel" /\ dl[s].pc = "done" /\ dl[s].kvFault /\ ~dl[s].ret
        /\ tasks[t].op = "initialize" /\ tasks[t].pc = "done"
        /\ tasks[t].outcome = "resolved" /\ ~tasks[t].initRet

\* getCurrentModelStatus returns in this step
StatusReturns(t) ==
    tasks[t].op = "status" /\ tasks[t].pc # "done" /\ tasks'[t].pc = "done"

\* the record or the primary artifact of the selected model is missing
ArtifactMissing(modelId) == getModelPath(model_records, fs, modelId) = <<>>

SidecarMissing(modelId) == ~Exists(fs, TokenizerInfoPathOf(modelId))

\* C14, as claimed: getCurrentModelStatus always resolves to a status
\* object, and when the record, the primary artifact or the sidecar of the
\* selected model is missing the object has hasRealModel = false and a
\* status text.
C14_StatusObjectWhateverFails ==
    [][\A t \in Slots :
          StatusReturns(t)
              => /\ tasks'[t].outcome = "resolved"
                 /\ tasks'[t].status.status # NULL
                 /\ (tasks'[t].curId # NULL
                        /\ (ArtifactMissing(tasks'[t].curId) \/ SidecarMissing(tasks'[t].curId)))
                       => ~tasks'[t].status.hasRealModel]_vars

\* C14, amended: getCurrentModelStatus always resolves to a status object
\* with a status text and a tokenizer status; with no pointer, a failed
\* pointer read, a missing record or a missing primary artifact it has
\* hasRealModel = false; when getModelPath gave a path, hasRealModel says
\* whether a session is held, and a missing sidecar shows only in
\* tokenizerStatus.
C14_StatusDegradesToPartialInformation ==
    [][\A t \in Slots :
          StatusReturns(t)
              => /\ tasks'[t].outcome = "resolved"
                 /\ tasks'[t].status.status # NULL
                 /\ tasks'[t].status.tokenizerStatus # NULL
                 /\ tasks'[t].curId = NULL => ~tasks'[t].status.hasRealModel
                 /\ (tasks'[t].curId # NULL /\ ArtifactMissing(tasks'[t].curId))
                       => /\ ~tasks'[t].status.hasRealModel
                          /\ tasks'[t].status.error # NULL
                 /\ tasks'[t].modelPath # <<>>
                       => /\ tasks'[t].status.hasRealModel <=> session # NoSession
                          /\ SidecarMissing(tasks'[t].curId)
                                => tasks'[t].status.tokenizerStatus = "No tokenizer configured"]_vars

\* the status of a loaded model whose sidecar is missing
C14_Witness ==
    \E t \in Slots :
        /\ tasks[t].op = "status" /\ tasks[t].pc = "done"
        /\ tasks[t].modelPath # <<>>
        /\ SidecarMissing(tasks[t].curId)
        /\ session # NoSession
        /\ tasks[t].status.hasRealModel
        /\ tasks[t].status.tokenizerStatus = "No tokenizer configured"

\* a step of a getCurrentModelStatus call
StatusStep(t) == tasks'[t].op = "status" /\ tasks'[t] # tasks[t]

\* C15: getCurrentModelStatus is side-effect-free: no step of it changes
\* the session, the bound model id, isInitialized, isInitializing, the
\* tokenizer, any Content Store key or any file or directory of the Blob
\* Store.
C15_StatusHasNoSideEffect ==
    [][\A t \in Slots :
          StatusStep(t)
              => UNCHANGED <<current_model, installed_models, model_records, fs,
                             session, currentModelId, isInitialized, isInitializing,
                             tokenizer>>]_vars

\* C18: an enhanceText call made while the service holds a session whose
\* model has lost its installed record or its primary artifact returns
\* isFallback = true, without rejecting, and the service holds no session
\* when it has returned.
C18_StaleSessionIsDemoted ==
    [][\A t \in Slots :
          (tasks[t].op = "enhanceText" /\ tasks[t].stale
              /\ tasks[t].pc # "done" /\ tasks'[t].pc = "done")
              => /\ tasks'[t].outcome = "resolved"
                 /\ tasks'[t].result.isFallback
                 /\ session' = NoSession]_vars

\* an initialization has run to its end under a call whose record is kept
InitializationCompleted(u) ==
    tasks[u].op \in {"initialize", "enhanceText"} /\ tasks[u].started /\ tasks[u].initReturned

\* C19: once an initialization has run to its end, with or without a
\* model, a later enhanceText call starts no other initialization (the
\* selected model does not change here).
C19_InitializedAtMostOnce ==
    [][\A t \in Slots :
          (tasks[t].pc = "idle" /\ tasks'[t].op = "enhanceText"
              /\ \E u \in Slots \ {t} : InitializationCompleted(u))
              => ~tasks'[t].started]_vars

(***************************************************************************)
(* Properties of the service with the screen's flows (SpecSvc), continued. *)
(***************************************************************************)
\* switchModel has set the pointer and its initialize() has returned
SwitchReturned(t) ==
    tasks[t].op = "switchModel" /\ tasks[t].pc = "done" /\ tasks[t].initReturned

\* C21: once a model switch has returned and no initialization is in
\* flight, a session that is present was loaded from the model the pointer
\* names, whatever initialize() was started before the switch.
C21_SessionFollowsSelectedModel ==
    \A t \in Slots :
        (SwitchReturned(t) /\ current_model = tasks[t].modelId
            /\ InFlight = {} /\ ~isInitializing /\ session # NoSession)
            => ModelOfPath(session) = current_model

(***************************************************************************)
(* Properties of the public operations called one at a time (SpecApi),     *)
(* continued.                                                              *)
(***************************************************************************)
\* validateModelTokenizerMatch returns to its caller in this step
ValidateReturns(t) ==
    tasks'[t].op = "validate" /\ tasks[t].pc # "done" /\ tasks'[t].pc = "done"

\* the issues of the five checks, (a) to (e)
CheckIssues ==
    <<"No model selected", "Model configuration not found", "Tokenizer not configured",
      "Tokenizer mismatch", "Tokenizer configured but not loaded">>

\* the issue of the first check that fails for the model modelId, as the
\* stores and the service are now; NULL when none fails
FirstFailingCheck(modelId) ==
    IF modelId = NULL THEN CheckIssues[1]
    ELSE IF ~HasRecord(model_records, modelId) THEN CheckIssues[2]
    ELSE IF ~Exists(fs, TokenizerInfoPathOf(modelId)) THEN CheckIssues[3]
    ELSE IF fs[TokenizerInfoPathOf(modelId)].info # model_records[modelId].tokenizerModel
         THEN CheckIssues[4]
    ELSE IF tokenizer = NULL THEN CheckIssues[5]
    ELSE NULL

\* C22: validateModelTokenizerMatch reports the issue of the first failing
\* check in the order (a) a model is selected in the persisted pointer,
\* (b) its installed record exists, (c) its sidecar exists, (d) the sidecar
\* names the record's tokenizer, (e) a tokenizer is loaded; the five issues
\* are pairwise distinct.  (Calls in runs where no store operation failed.)
C22_FirstFailingCheckIsReported ==
    [][\A t \in Slots :
          (ValidateReturns(t) /\ faults' = 0)
              => /\ tasks'[t].validation.issue = FirstFailingCheck(current_model)
                 /\ tasks'[t].validation.isValid <=> FirstFailingCheck(current_model) = NULL
                 /\ Cardinality({CheckIssues[i] : i \in 1..5}) = 5]_vars

\* a step of a fixModelTokenizerMismatch call
FixStep(t) == tasks'[t].op = "fix" /\ tasks'[t] # tasks[t]

\* C23: no step of fixModelTokenizerMismatch changes the pointer, the
\* index, a record, a primary artifact or any other entry of the Blob
\* Store; the only entry it may write is tokenizer_info.json of the bound
\* model.
C23_RepairWritesOnlyTheSidecar ==
    [][\A t \in Slots :
          FixStep(t)
              => /\ UNCHANGED <<current_model, installed_models, model_records>>
                 /\ \A p \in DOMAIN fs :
                        p # TokenizerInfoPathOf(currentModelId) => fs'[p] = fs[p]
                 /\ DOMAIN fs' = DOMAIN fs]_vars

\* a repair has rewritten the sidecar of the bound model and has returned;
\* the model file is where it was
C23_Witness ==
    \E t \in Slots :
        /\ tasks[t].op = "fix" /\ tasks[t].pc = "done" /\ tasks[t].phase = "second"
        /\ Exists(fs, TokenizerInfoPathOf(currentModelId))
        /\ fs[TokenizerInfoPathOf(currentModelId)] = FixedTokenizerInfo(tasks[t].modelConfig)
        /\ IsFile(fs, ModelPathOf(currentModelId))
        /\ HasRecord(model_records, currentModelId)

\* fixModelTokenizerMismatch returns in this step
FixReturns(t) ==
    tasks'[t].op = "fix" /\ tasks[t].pc # "done" /\ tasks'[t].pc = "done"

\* a repair that was called with the sidecar of the bound model missing or
\* wrong returns in this step, and none of its store operations has failed
RepairOfMismatchReturns(t) ==
    FixReturns(t) /\ tasks'[t].mismatched /\ faults' = tasks'[t].faultsAtCall

\* the sidecar of the bound model is there and names the record's tokenizer
SidecarAgrees(f) ==
    /\ HasRecord(model_records, currentModelId)
    /\ getTokenizerInfo(f, currentModelId) = model_records[currentModelId].tokenizerModel

DownloadReturns(s) ==
    dl[s].op = "downloadModel" /\ dl[s].pc # "done" /\ dl'[s].pc = "done"

\* the call got its model file (found, transferred or synthesized) and the
\* write of the sidecar threw
SidecarWriteFailed(c) == c.src # "none" /\ c.fsFault

\* C25: the sidecar is written whether the model file was transferred or
\* synthesized; when its write fails, downloadModel still returns true and,
\* unless the Content Store fails as well, the record and the index entry
\* are persisted; and a validation of the bound model whose record is there
\* and whose sidecar is missing reports 'Tokenizer not configured'.
C25_SidecarFailureDoesNotFailAcquisition ==
    [][/\ \A s \in Slots :
             DownloadReturns(s)
                 => /\ (dl'[s].src \in {"primary", "alternative", "demo"}
                          /\ ~dl'[s].fsFault)
                        => /\ dl'[s].ret
                           /\ getTokenizerInfo(fs', dl'[s].modelId)
                                  = getModelConfigurations[dl'[s].modelId].tokenizerModel
                    /\ SidecarWriteFailed(dl'[s])
                        => /\ dl'[s].ret
                           /\ ~dl'[s].kvFault
                                 => /\ HasRecord(model_records', dl'[s].modelId)
                                    /\ Includes(installed_models', dl'[s].modelId)
       /\ \A t \in Slots :
             (ValidateReturns(t) /\ currentModelId # NULL
                 /\ HasRecord(model_records, currentModelId)
                 /\ ~Exists(fs, TokenizerInfoPathOf(currentModelId)))
                 => /\ ~tasks'[t].validation.isValid
                    /\ tasks'[t].modelConfig # NoConfig
                          => tasks'[t].validation.issue = "Tokenizer not configured"]_vars

\* a download whose sidecar write failed has returned true, the record is
\* there, and the validation of that model after it says 'Tokenizer not
\* configured'
C25_Witness ==
    \E s, t \in Slots :
        /\ Returned(s) /\ dl[s].ret /\ SidecarWriteFailed(dl[s])
        /\ dl[s].src \in {"primary", "alternative", "demo"}
        /\ HasRecord(model_records, dl[s].modelId)
        /\ ~Exists(fs, TokenizerInfoPathOf(dl[s].modelId))
        /\ currentModelId = dl[s].modelId
        /\ tasks[t].op = "validate" /\ tasks[t].pc = "done"
        /\ tasks[t].validation.issue = "Tokenizer not configured"

(***************************************************************************)
(* Properties of the downloader (SpecDL), continued.                       *)
(***************************************************************************)
\* the steps of downloadModelFile at which the original url is contacted,
\* and those at which an alternative candidate is
OriginalPcs == {"dmf_head", "dmf_transfer", "dmf_stat"}

CandidatePcs == {"alt_head", "alt_transfer", "alt_stat"}

C27_AcceptedTransferIsAboveMinimumSize ==
    \A s \in Slots :
        (/\ dl[s].op = "downloadModel" /\ dl[s].pc = "tok_write"
         /\ dl[s].src \in {"primary", "alternative"})
            => fs[ModelPathOf(dl[s].modelId)].size > MinPlausibleSize

\* a removeModel call has returned true
Removed(s) == dl[s].op = "removeModel" /\ dl[s].pc = "done" /\ dl[s].ret

\* C28: when removeModel(modelId) returns true the model directory, with
\* the model file and the sidecar, is gone, the record 'model_<modelId>' is
\* absent, the index does not contain modelId and getModelPath(modelId) is
\* null; and no step of the removal changes the record, the directory or
\* the index entry of another model.
C28_RemovalLeavesNothingAndTouchesNothingElse ==
    [][\A s \in Slots :
          LET modelId == dl'[s].modelId
          IN  (dl'[s].op = "removeModel" /\ dl[s].op = "removeModel")
                 => /\ (Removed(s))' =>
                          /\ ~Exists(fs', ModelDirOf(modelId))
                          /\ ~Exists(fs', ModelPathOf(modelId))
                          /\ ~Exists(fs', TokenizerInfoPathOf(modelId))
                          /\ ~HasRecord(model_records', modelId)
                          /\ ~Includes(getInstalledModels(installed_models'), modelId)
                          /\ getModelPath(model_records', fs', modelId) = <<>>
                    /\ \A other \in CatalogIds \ {modelId} :
                          /\ model_records'[other] = model_records[other]
                          /\ \A p \in AllPaths :
                                IsPrefix(ModelDirOf(other), p) => fs'[p] = fs[p]
                          /\ Includes(installed_models', other)
                                <=> Includes(installed_models, other)
                    /\ Filter(installed_models', modelId)
                          = Filter(installed_models, modelId)]_vars

\* an installed model has been removed while another one stays installed
C28_Witness ==
    \E s \in Slots : \E other \in CatalogIds :
        /\ Removed(s)
        /\ Includes(dl[s].installed, dl[s].modelId)
        /\ other # dl[s].modelId
        /\ HasRecord(model_records, other)
        /\ Includes(installed_models, other)
        /\ Exists(fs, ModelPathOf(other))

(***************************************************************************)
(* Properties of the downloader's queries (SpecApi).                       *)
(***************************************************************************)
\* the step at which getModelPath is called and answers, none of its store
\* operations failing
GetModelPathAnswers(t) ==
    /\ tasks'[t].op = "getModelPath" /\ tasks'[t].pc = "done"
    /\ tasks[t].pc = "idle"
    /\ faults' = faults

\* C29: getModelPath(modelId) answers the path of the model file exactly
\* when the record 'model_<modelId>' exists and the file at the recorded
\* path exists, and null otherwise; with the file gone it answers null
\* whether or not the record and the index entry are still there.
C29_PathIffRecordAndFile ==
    [][\A t \in Slots :
          GetModelPathAnswers(t) =>
              LET modelId == tasks'[t].modelId
                  answer == tasks'[t].modelPath
              IN  /\ answer = ModelPathOf(modelId)
                        <=> /\ HasRecord(model_records, modelId)
                            /\ Exists(fs, model_records[modelId].path)
                  /\ answer \in {ModelPathOf(modelId), <<>>}
                  /\ HasRecord(model_records, modelId)
                        => model_records[modelId].path = ModelPathOf(modelId)
                  /\ ~Exists(fs, ModelPathOf(modelId)) => answer = <<>>]_vars

\* the file is gone while the record and the index entry remain, and
\* getModelPath has answered null without a failing read
C29_Witness ==
    \E t \in Slots :
        LET modelId == tasks[t].modelId
        IN  /\ tasks[t].op = "getModelPath" /\ tasks[t].pc = "done"
            /\ tasks[t].faultsAtCall = faults
            /\ tasks[t].modelPath = <<>>
            /\ HasRecord(model_records, modelId)
            /\ Includes(installed_models, modelId)
            /\ ~Exists(fs, ModelPathOf(modelId))

(***************************************************************************)
(* Properties of overlapping downloader calls (SpecConc).                  *)
(***************************************************************************)
NoDuplicates(seq) == \A i, j \in 1..Len(seq) : seq[i] = seq[j] => i = j

\* C30: in every reachable state, whatever downloadModel and removeModel
\* calls have run, one after another or overlapping, for the same model id
\* or for different ones, the installed-models index lists no model
\* identifier more than once.
C30_IndexHasNoDuplicates == NoDuplicates(getInstalledModels(installed_models))

\* two overlapping acquisitions of the same model have both read an index
\* without the id, both have written it and both have returned
C30_Witness ==
    /\ \A s \in Slots :
          /\ Returned(s) /\ dl[s].ret /\ ~dl[s].kvFault
          /\ dl[s].modelId = CatalogOrder[1]
          /\ dl[s].src # "none"
          /\ ~Includes(dl[s].installed, dl[s].modelId)
    /\ Len(installed_models) = 2
    /\ Includes(installed_models, CatalogOrder[1])

(***************************************************************************)
(* Properties of the enhancement results, continued (SpecApi).             *)
(***************************************************************************)
\* the step at which an enhanceText call gets its response
EnhanceTextAnswers(t) ==
    /\ tasks'[t].op = "enhanceText" /\ tasks'[t].pc = "done"
    /\ tasks[t].pc # "done"
    /\ tasks'[t].outcome = "resolved"

\* the reason the cause of a fallback calls for, the stores being what
\* they were throughout the call
ReasonOfCause ==
    IF current_model = NULL THEN "no-model-selected"
    ELSE IF getModelPath(model_records, fs, current_model) = <<>> THEN "model-file-missing"
    ELSE "runtime-load-failed"

\* C31: an enhanceText response with isFallback = true carries the reason
\* of its cause: no-model-selected when the pointer is empty,
\* model-file-missing when the selected model's file does not resolve,
\* runtime-load-failed when the session could not be created (stated for
\* calls made while no store operation has ever failed).
C31_FallbackReasonIdentifiesCause ==
    [][\A t \in Slots :
          (EnhanceTextAnswers(t) /\ tasks'[t].result.isFallback /\ faults' = 0)
              => tasks'[t].result.fallbackReason = ReasonOfCause]_vars

(***************************************************************************)
(* Properties of the rewriting under the derived prompts (SpecStyle).      *)
(***************************************************************************)
\* an enhanceText call has answered with the rule-based fallback
FallbackAnswered(t) ==
    /\ tasks[t].op = "enhanceText" /\ tasks[t].pc = "done"
    /\ tasks[t].outcome = "resolved"
    /\ tasks[t].result.isFallback

\* C32: when the model path is unavailable, two enhanceText calls on the
\* same text made under system prompts that derive different styles
\* (creative, technical, casual, blog) take different rewriting branches:
\* their texts differ.
C32_StyleSelectsFallbackBranch ==
    \A a, b \in Slots :
        (/\ FallbackAnswered(a) /\ FallbackAnswered(b)
         /\ tasks[a].text = tasks[b].text
         /\ StyleOf(tasks[a].prompt) # StyleOf(tasks[b].prompt))
            => tasks[a].result.enhancedText # tasks[b].result.enhancedText

(***************************************************************************)
(* Properties of the validator, continued (SpecApi).                       *)
(***************************************************************************)
\* C33: in every reachable state the tokenizer handle is absent, no
\* validateModelTokenizerMatch has answered isValid = true and no
\* fixModelTokenizerMismatch has answered true, whatever the record and the
\* sidecar are.
C33_TokenizerIsNeverLoaded ==
    /\ tokenizer = NULL
    /\ \A t \in Slots :
          /\ tasks[t].op \in {"validate", "fix"} => ~tasks[t].validation.isValid
          /\ tasks[t].op = "fix" => ~tasks[t].ret

\* with the record and the sidecar of the bound model in agreement, a
\* validation has answered 'Tokenizer configured but not loaded' and a repair
\* that rewrote the sidecar has answered false
C33_Witness ==
    \E a, b \in Slots :
        /\ SidecarAgrees(fs)
        /\ tasks[a].op = "validate" /\ tasks[a].pc = "done"
        /\ tasks[a].validation = Invalid(CheckIssues[5])
        /\ tasks[b].op = "fix" /\ tasks[b].pc = "done" /\ tasks[b].phase = "second"
        /\ tasks[b].validation = Invalid(CheckIssues[5])
        /\ ~tasks[b].ret

(***************************************************************************)
(* Properties of the initialization guard (SpecCalls).                     *)
(***************************************************************************)
\* C34: the guard is always released: whenever isInitializing is set it is
\* cleared again, the awaits of the call that set it returning or failing
\* in the end; and it is set only while a call is between its guard and
\* its return, so no later initialize() is turned away for good.
C34_GuardIsAlwaysReleased ==
    /\ isInitializing ~> ~isInitializing
    /\ [](isInitializing => InFlight # {})

\* an initialize() that took the guard has returned false, another that
\* took it later has returned true, and the guard is free
C34_Witness ==
    \E a, b \in Slots :
        /\ tasks[a].started /\ tasks[a].initReturned /\ ~tasks[a].initRet
        /\ tasks[b].started /\ tasks[b].initReturned /\ tasks[b].initRet
        /\ ~isInitializing

\* C35: once every downloadModel and removeModel call in flight has
\* completed, the index holds exactly the ids that have a record
\* 'model_<id>', however acquisitions and removals of different models
\* have overlapped.
C35_IndexMatchesRecordsWhenQuiet ==
    (\A s \in Slots : dl[s].pc \in {"idle", "done"})
        => \A id \in CatalogIds :
              Includes(installed_models, id) <=> HasRecord(model_records, id)

(***************************************************************************)
(* Properties of the status against the results (SpecApi).                 *)
(***************************************************************************)
\* getCurrentModelStatus answers in this step and none of its reads failed
StatusAnswersUnfailed(t) ==
    StatusReturns(t) /\ tasks'[t].status # ErrorStatus /\ faults' = 0

\* C36: with no initialization in flight, the status agrees with what
\* follows: an enhanceText called in a state where getCurrentModelStatus
\* reports hasRealModel = false answers isFallback = true, and one called
\* where it reports true answers isFallback = false; and whenever
\* getCurrentModelStatus answers, getModelInfo().hasRealModel is what it
\* reports.
C36_StatusAgreesWithProvenance ==
    [][\A t \in Slots :
          /\ (EnhanceTextAnswers(t) /\ faults' = 0)
                => (tasks'[t].result.isFallback <=> ~tasks'[t].reported)
          /\ StatusAnswersUnfailed(t)
                => /\ tasks'[t].status.hasRealModel = ReportsRealModel
                   /\ tasks'[t].status.hasRealModel = getModelInfo]_vars

\* the file at the model path of modelId is what a transfer that did not
\* succeed left there: an error page, with no installed record made for it
Leftover(modelId) ==
    /\ Exists(fs, ModelPathOf(modelId))
    /\ fs[ModelPathOf(modelId)] = ErrorPage
    /\ ~HasRecord(model_records, modelId)

\* C37: a file left at the model path by an acquisition that did not
\* succeed is not accepted as the model file by a later downloadModel of
\* that id: the call does not go on to the sidecar and the record with the
\* file it found.
C37_LeftoverFileIsNotAccepted ==
    [][\A s \in Slots :
          (/\ dl[s].op = "downloadModel" /\ At(s, "dmf_exists")
           /\ ~dl[s].usedNetwork
           /\ Leftover(dl[s].modelId))
             => ~(dl'[s].pc = "tok_write" /\ dl'[s].src = "existing")]_vars


\* a removeModel call has returned false
RemovalFailed(s) == dl[s].op = "removeModel" /\ dl[s].pc = "done" /\ ~dl[s].ret

\* C38: when removeModel(modelId) returns false the removal had no effect:
\* no step of the call has removed the model directory or the record
\* 'model_<modelId>' or changed the index.
C38_FailedRemovalHasNoEffect ==
    \A s \in Slots : RemovalFailed(s) => ~dl[s].changed


\* initialize() of slot t completes with a session in this step
InitializeLoads(t) ==
    /\ tasks[t].pc = "init_create"
    /\ tasks'[t].initReturned /\ tasks'[t].initRet
    /\ session' # NoSession

\* C39: whenever initialize() completes with a session, currentModelId is
\* the id of the model whose file was loaded into that session, also when
\* a model switch sets 'current_model' between the two reads of it inside
\* initialize().
C39_BoundIdIsTheLoadedModel ==
    [][\A t \in Slots :
          InitializeLoads(t) => currentModelId' = ModelOfPath(session')]_vars


====
